---- MODULE Spec2Model ----
(***************************************************************************)
(* A model of the assessment generation pipeline of KDigitalAi/Assessments *)
(* (src/scripts/generate_all_assessments.py), of its question validator    *)
(* and of the difficulty classifier of the service path                    *)
(* (src/app/services/assessment_generator.py).                             *)
(*                                                                         *)
(* The store holds three tables: assessments, skill_assessment_questions   *)
(* and courses.  A pipeline run is one process: the constructor of         *)
(* AssessmentGenerator followed by generate_all_assessments.  Every store  *)
(* request and every completion call is one step of the run.               *)
(***************************************************************************)
EXTENDS Integers, Sequences, FiniteSets

(***************************************************************************)
(* Program constants.                                                      *)
(***************************************************************************)
NUM_QUESTIONS_PER_PDF == 20
MAX_RETRIES_OFF == 3 + 1
MAX_RETRIES == 3
MIN_ACCEPTABLE_FLOOR == 18
HARD_FLOOR == 15

(***************************************************************************)
(* Bounds of the model.                                                    *)
(***************************************************************************)
NumSources == 2
MaxRuns == 2
MaxDefects == 2
MaxChunks == 2
MaxBatches == 3
MaxQuestions == 15

Sources == 1..NumSources
Runners == {1, 2}

VARIABLES
    concurrent,   \* TRUE when two pipeline processes may overlap
    faults,       \* TRUE when store requests may raise
    catalog,      \* the pdf_ids of table pdf_embeddings
    chunkless,    \* the pdf_ids of pdf_embeddings whose rows carry no content
    assessments,  \* table assessments: row i has id i
    qrows,        \* qrows[i]: rows of skill_assessment_questions with assessment_id i
    courses,      \* table courses: row i has id i, courses[i] is its name
    runs,         \* pipeline runs started so far
    pc,           \* pc[r]: where process r is
    cache,        \* cache[r]: self.assessment_cache of process r
    pending,      \* pending[r]: pdf_ids the filter has not looked at yet
    todo,         \* todo[r]: pdfs_to_process not yet attempted
    skipped,      \* skipped[r]: skipped_pdfs
    outcome,      \* outcome[r][s]: how the run of process r counted source s
    absentAtCheck,\* the processes whose duplicate check in create_assessment ran
                  \* while the store held no row for the source
    cur,          \* cur[r]: pdf_id being processed (0: none)
    aid,          \* aid[r]: assessment_id of generate_assessment_from_pdf (0: none)
    attempt,      \* attempt[r]: loop variable of the generation controller
    calls,        \* calls[r]: completion calls made for the current source
    batch,        \* batch[r]: the validated response of the current attempt
    result,       \* result[r]: len of the list generate_questions_from_pdf_content returned
    successful,   \* successful[r]: counter of generate_all_assessments
    failed,       \* failed[r]: counter of generate_all_assessments
    firstRun,     \* the question table as the first completed run left it
    candidate,    \* the parsed candidate handed to validate_question
    verdict,      \* what validate_question did with it ("none": not called yet)
    chunks,       \* the chunks handed to determine_difficulty_from_chunks
    difficulty,   \* the label it returned ("none": not called yet)
    created,      \* created[r][s]: id of the row create_assessment of process r
                  \* persisted for source s (0: none)
    lookup,       \* the last check_assessment_exists_by_pdf_id made on its own
    complete,     \* complete[r]: the sources that had an Assessment with a course
                  \* and questions when the run of process r began
    ins,          \* the batched insert of generate_questions_for_source
    startup,      \* what the process finds at startup: its credentials, whether
                  \* the completion service can be reached in this run, and
                  \* whether the constructor's store request returned
    scoring,      \* submit_assessment: the question, the answer and its score
    mix,          \* the difficulty mix of a batch and of its blueprint
    topic,        \* the classifiers: a source's name and id, topic and course
    knowledge,    \* knowledge[r]: how the extraction call for the current
                  \* source ended, and the summary put into the prompt
    service,      \* the service pipeline: its invocations and what they stored
    course_id,    \* course_id[r]: what get_or_create_course returned to the
                  \* course backfill of the current source (0: None, or no
                  \* backfill)
    diagnosis,    \* what the generation loop computes for a rejected candidate
    listed,       \* listed[r]: pdf_ids and pdfs_to_process of generate_all_assessments
    summary,      \* summary[r]: the run summary process r printed
    twin          \* the two copies of the generation controller fed the same responses

vars == <<concurrent, faults, catalog, chunkless, assessments, qrows, courses, runs, pc,
          cache, pending, todo, skipped, outcome, absentAtCheck, cur, aid,
          attempt, calls, batch, result, successful, failed, firstRun,
          candidate, verdict, chunks, difficulty, created, lookup, complete,
          ins, startup, scoring, mix, topic, knowledge,
          service, course_id,
          diagnosis, listed, summary,
          twin>>

storeVars == <<assessments, qrows, courses>>
genVars == <<attempt, calls, batch, result, knowledge, course_id>>
countVars == <<successful, failed, outcome>>
runVars == <<runs, complete, startup>>
serviceVars == <<scoring, mix, topic, service, diagnosis, twin>>
envVars == <<concurrent, faults, catalog, chunkless, candidate, verdict, chunks,
            difficulty, lookup, ins, serviceVars>>

----------------------------------------------------------------------------
(***************************************************************************)
(* Helpers.                                                                *)
(***************************************************************************)
NoRec == [id |-> 0, course |-> 0]
NoBatch == [err |-> FALSE, valid |-> 0, rejected |-> FALSE]
NoScoring == [options |-> <<>>, correct_option |-> 0, selected_option |-> 0,
              correct_answer |-> <<>>, answer |-> <<>>, is_correct |-> "none",
              total_score |-> 0]
NoDiagnosis == [outcome |-> "none", issues |-> {}]
NoLists == [pdf_ids |-> {}, pdfs_to_process |-> {}]
NoSummary == [printed |-> FALSE, detected |-> 0, skipped |-> 0, attempted |-> 0,
              successful |-> 0, failed |-> 0]
Running == [kind |-> "running", attempt |-> 0, calls |-> 0, n |-> 0]
NoTwin == [responses |-> <<>>, scripts |-> Running, root |-> Running]
NoMix == [n |-> 0, counts |-> <<>>, asked |-> <<>>, question_count |-> 0,
          blueprint |-> <<>>]
NoTopic == [source_name |-> <<>>, pdf_id |-> <<>>, topic |-> <<>>, course |-> <<>>,
            extracted |-> FALSE, detected |-> FALSE]
NoService == [runs |-> 0, todo |-> {},
              assessments |-> [s \in Sources |-> 0],
              questions |-> [s \in Sources |-> 0],
              first |-> [taken |-> FALSE, assessments |-> 0, questions |-> 0]]
NoKnowledge == [outcome |-> "none", summary |-> "none"]
Ready == [credentials |-> TRUE, completions |-> TRUE, store |-> "unknown",
          extraction |-> "sound"]
NoInsert == [n |-> 0, i |-> 0, batches |-> <<>>, inserted |-> 0, result |-> "none"]
NoLookup == [by |-> 0, pdf |-> 0, queried |-> FALSE, id |-> 0, made |-> 0]

\* The outcomes of one store request: it returns, or (with faults) it raises.
Ok == IF faults THEN BOOLEAN ELSE {TRUE}

SetMax(S) == CHOOSE x \in S : \A y \in S : y <= x
SetMin(S) == CHOOSE x \in S : \A y \in S : x <= y

\* The sum of a sequence of numbers.
RECURSIVE Total(_)
Total(q) == IF q = <<>> THEN 0 ELSE Head(q) + Total(Tail(q))

\* detect_course_name on the catalog: titles of odd sources carry a Python
\* indicator, titles of even sources a DevOps indicator.
detect_course_name(s) == IF s % 2 = 0 THEN "DevOps" ELSE "Python"

\* The rows of assessments whose blueprint names pdf_id s.
RowsOf(s) == {i \in 1..Len(assessments) : assessments[i].pdf = s}

\* The sources that have an Assessment with a course linkage and at least
\* one Question row.
CompleteSources ==
    {s \in Sources : \E i \in RowsOf(s) : assessments[i].course # 0 /\ qrows[i] > 0}

\* Mutant: no blueprint yields a pdf_id, so the scan caches nothing.
PopulateCacheEmpty(ok) == [s \in Sources |-> NoRec]

\* _populate_assessment_cache: later rows overwrite earlier ones; an
\* exception leaves the cache empty.
PopulateCache(ok) ==
    [s \in Sources |->
        IF ok /\ RowsOf(s) # {}
        THEN [id |-> SetMax(RowsOf(s)), course |-> assessments[SetMax(RowsOf(s))].course]
        ELSE NoRec]

\* Mutant: a cache miss is not followed by a refresh.
check_without_refresh(c, s, ok) == c

\* check_assessment_exists_by_pdf_id: the cache after the call (the value
\* returned is its entry for s).
check_assessment_exists_by_pdf_id(c, s, ok) ==
    IF c[s].id # 0 THEN c ELSE PopulateCache(ok)

\* Mutant: the query filters on the wrong key and returns nothing.
HasQuestionsNever(a) == FALSE

\* The query of skill_assessment_questions by assessment_id returns rows.
HasQuestions(a) == qrows[a] > 0

\* check_questions_exist: an exception reads as "no questions".
check_questions_exist(a, ok) == ok /\ HasQuestions(a)

\* get_or_create_course: the id returned (0: None) and the table afterwards.
CourseIds(name) == {i \in 1..Len(courses) : courses[i] = name}
get_or_create_course(name, ok) ==
    IF ~ok THEN [id |-> 0, table |-> courses]
    ELSE IF CourseIds(name) # {}
         THEN [id |-> SetMin(CourseIds(name)), table |-> courses]
         ELSE [id |-> Len(courses) + 1, table |-> Append(courses, name)]

----------------------------------------------------------------------------
(***************************************************************************)
(* The generation controller's decision on one validated batch:           *)
(* generate_questions_from_pdf_content, lines 662-684, with a the          *)
(* zero-based attempt.  n is the length of the list returned.              *)
(***************************************************************************)
Retry == [kind |-> "retry", n |-> 0]
Return(n) == [kind |-> "return", n |-> n]

\* Mutant: the near-enough floor is taken 10 below the target.
min_acceptable_low == NUM_QUESTIONS_PER_PDF - 10

\* Lines 667 and 978: max(18, NUM_QUESTIONS_PER_PDF - 2).
min_acceptable == IF MIN_ACCEPTABLE_FLOOR > NUM_QUESTIONS_PER_PDF - 2
                  THEN MIN_ACCEPTABLE_FLOOR ELSE NUM_QUESTIONS_PER_PDF - 2

EarlyRetry(valid, rejected, a) ==
    valid < NUM_QUESTIONS_PER_PDF /\ rejected /\ a < MAX_RETRIES - 1

PartialResult(valid) == IF valid >= HARD_FLOOR THEN valid ELSE 0

AttemptOutcome(valid, rejected, a) ==
    IF EarlyRetry(valid, rejected, a) THEN Retry
    ELSE IF valid >= NUM_QUESTIONS_PER_PDF THEN Return(NUM_QUESTIONS_PER_PDF)
    ELSE IF valid >= min_acceptable THEN Return(valid)
    ELSE IF valid > 0
         THEN IF a < MAX_RETRIES - 1 THEN Retry ELSE Return(PartialResult(valid))
    ELSE IF a < MAX_RETRIES - 1 THEN Retry ELSE Return(0)

\* generate_questions_from_pdf_content of src/generate_all_assessments.py,
\* lines 523-555: the same decisions without the early retry; the branch at
\* line 523 only prints.
AttemptOutcomeRoot(valid, rejected, a) ==
    IF valid >= NUM_QUESTIONS_PER_PDF THEN Return(NUM_QUESTIONS_PER_PDF)
    ELSE IF valid >= min_acceptable THEN Return(valid)
    ELSE IF valid > 0
         THEN IF a < MAX_RETRIES - 1 THEN Retry ELSE Return(PartialResult(valid))
    ELSE IF a < MAX_RETRIES - 1 THEN Retry ELSE Return(0)

\* Mutant: the first failed attempt ends the generation.
AttemptErrorGivesUp(a) == Return(0)

\* The except clauses, lines 686-696.
AttemptError(a) == IF a < MAX_RETRIES - 1 THEN Retry ELSE Return(0)

\* generate_assessment_from_pdf, line 980: the caller's own floor.
Insufficient(n) == n = 0 \/ n < min_acceptable

----------------------------------------------------------------------------
(***************************************************************************)
(* validate_question.  A string is a sequence of characters; a value of a  *)
(* parsed candidate is a string, a number, None, a list, or is absent from *)
(* the dictionary.  A number carries its decimal form, which is what str() *)
(* gives.                                                                  *)
(***************************************************************************)
Absent == [kind |-> "absent", str |-> <<>>, items |-> <<>>]
None == [kind |-> "None", str |-> <<>>, items |-> <<>>]
Text(s) == [kind |-> "str", str |-> s, items |-> <<>>]
Number(s) == [kind |-> "int", str |-> s, items |-> <<>>]
List(xs) == [kind |-> "list", str |-> <<>>, items |-> xs]

LowerCase ==
    <<"a", "b", "c", "d", "e", "f", "g", "h", "i", "j", "k", "l", "m",
      "n", "o", "p", "q", "r", "s", "t", "u", "v", "w", "x", "y", "z">>
UpperCase ==
    <<"A", "B", "C", "D", "E", "F", "G", "H", "I", "J", "K", "L", "M",
      "N", "O", "P", "Q", "R", "S", "T", "U", "V", "W", "X", "Y", "Z">>
Whitespace == {" ", "\t", "\n"}

Index(c, table) == CHOOSE i \in DOMAIN table : table[i] = c
InTable(c, table) == \E i \in DOMAIN table : table[i] = c

\* str.lower and str.upper.
lower(s) ==
    [i \in DOMAIN s |->
        IF InTable(s[i], UpperCase) THEN LowerCase[Index(s[i], UpperCase)] ELSE s[i]]
upper(s) ==
    [i \in DOMAIN s |->
        IF InTable(s[i], LowerCase) THEN UpperCase[Index(s[i], LowerCase)] ELSE s[i]]

\* str.strip.
RECURSIVE lstrip(_)
lstrip(s) == IF s # <<>> /\ Head(s) \in Whitespace THEN lstrip(Tail(s)) ELSE s
RECURSIVE rstrip(_)
rstrip(s) ==
    IF s # <<>> /\ s[Len(s)] \in Whitespace
    THEN rstrip(SubSeq(s, 1, Len(s) - 1))
    ELSE s
strip(s) == rstrip(lstrip(s))

\* pattern in s, and s.startswith(pattern).
contains(pattern, s) ==
    \E i \in 1..(Len(s) - Len(pattern) + 1) :
        SubSeq(s, i, i + Len(pattern) - 1) = pattern
startswith(s, pattern) ==
    Len(pattern) <= Len(s) /\ SubSeq(s, 1, Len(pattern)) = pattern

\* dict.get with and without a default, truth of a value, str(value).
get(question, key, default) ==
    IF question[key].kind = "absent" THEN default ELSE question[key]
truthy(v) ==
    CASE v.kind = "str" -> v.str # <<>>
      [] v.kind = "int" -> v.str # <<"0">>
      [] v.kind = "list" -> v.items # <<>>
      [] OTHER -> FALSE
isstr(v) == v.kind = "str"

banned_patterns ==
    << <<"p", "d", "f", "_">>,
       <<"v", "i", "d", "e", "o", "_">>,
       <<".", "p", "d", "f">>,
       <<".", "m", "p", "4">>,
       <<".", "a", "v", "i">>,
       <<".", "m", "o", "v">>,
       <<"f", "i", "l", "e", " ", "n", "a", "m", "e">>,
       <<"f", "i", "l", "e", "n", "a", "m", "e">>,
       <<"f", "i", "l", "e", " ", "t", "i", "t", "l", "e">>,
       <<"v", "i", "d", "e", "o", " ", "t", "i", "t", "l", "e">>,
       <<"t", "i", "m", "e", "s", "t", "a", "m", "p">>,
       <<"2", "0", "2", "5", "-">>,
       <<"2", "0", "2", "4", "-">>,
       <<"2", "0", "2", "3", "-">>,
       <<"2", "0", "2", "2", "-">>,
       <<"c", "h", "u", "n", "k">>,
       <<"e", "m", "b", "e", "d", "d", "i", "n", "g">>,
       <<"m", "e", "t", "a", "d", "a", "t", "a">>,
       <<"w", "h", "a", "t", " ", "i", "s", " ", "t", "h", "e", " ", "n", "a", "m", "e">>,
       <<"w", "h", "a", "t", " ", "i", "s", " ", "t", "h", "e", " ", "t", "i", "t", "l", "e">>,
       <<"w", "h", "a", "t", " ", "i", "s", " ", "t", "h", "e", " ", "f", "i", "l", "e">> >>

generic_questions ==
    << <<"w", "h", "a", "t", " ", "i", "s", " ", "p", "y", "t", "h", "o", "n">>,
       <<"w", "h", "a", "t", " ", "i", "s", " ", "a", " ", "v", "a", "r", "i", "a", "b", "l", "e">>,
       <<"w", "h", "a", "t", " ", "i", "s", " ", "a", " ", "f", "u", "n", "c", "t", "i", "o", "n">>,
       <<"w", "h", "a", "t", " ", "i", "s", " ", "a", " ", "l", "o", "o", "p">>,
       <<"w", "h", "a", "t", " ", "i", "s", " ", "a", " ", "l", "i", "s", "t">>,
       <<"w", "h", "a", "t", " ", "i", "s", " ", "a", " ", "d", "i", "c", "t", "i", "o", "n", "a", "r", "y">>,
       <<"w", "h", "a", "t", " ", "i", "s", " ", "p", "y", "t", "h", "o", "n", " ", "u", "s", "e", "d", " ", "f", "o", "r">>,
       <<"w", "h", "a", "t", " ", "i", "s", " ", "t", "h", "e", " ", "p", "u", "r", "p", "o", "s", "e", " ", "o", "f", " ", "p", "y", "t", "h", "o", "n">> >>

MIN_QUESTION_LENGTH == 30
answer_letters == {<<"A">>, <<"B">>, <<"C">>, <<"D">>}
difficulty_levels ==
    {<<"e", "a", "s", "y">>, <<"m", "e", "d", "i", "u", "m">>, <<"h", "a", "r", "d">>}

\* Lines 406-438: the checks of the question text.  "raise" is the
\* AttributeError of question_text.strip() on a value that is no string.
check_question_text(question) ==
    LET question_text == get(question, "question", Text(<<>>))
        question_text_lower == lower(question_text.str)
    IN  IF ~truthy(question_text) \/ strip(question_text.str) = <<>> THEN "reject"
        ELSE IF \E i \in DOMAIN banned_patterns :
                    contains(banned_patterns[i], question_text_lower) THEN "reject"
        ELSE IF \E i \in DOMAIN generic_questions :
                    startswith(question_text_lower, generic_questions[i]) THEN "reject"
        ELSE IF ~isstr(question_text) THEN "raise"
        ELSE IF Len(strip(question_text.str)) < MIN_QUESTION_LENGTH THEN "reject"
        ELSE "pass"

\* Lines 440-446: options is a list of 4 strings, none blank.
options_any_length(options) ==
    /\ options.kind = "list"
    /\ \A i \in DOMAIN options.items :
          isstr(options.items[i]) /\ strip(options.items[i].str) # <<>>
options_ok(options) ==
    /\ options.kind = "list"
    /\ Len(options.items) = 4
    /\ \A i \in DOMAIN options.items :
          isstr(options.items[i]) /\ strip(options.items[i].str) # <<>>

\* Lines 448-466: correct_answer, trimmed, is a letter in either case or the
\* text of an option.
check_correct_answer(question) ==
    LET correct_answer == get(question, "correct_answer", Text(<<>>))
        options == get(question, "options", List(<<>>))
        correct_answer_str == strip(correct_answer.str)
    IN  IF ~truthy(correct_answer) \/ correct_answer_str = <<>> THEN "reject"
        ELSE IF upper(correct_answer_str) \in answer_letters THEN "pass"
        ELSE IF \E i \in DOMAIN options.items :
                    options.items[i] = Text(correct_answer_str) THEN "pass"
        ELSE "reject"

\* Lines 469 and 476: question.get(key) is truthy and its strip() is too.
check_text_field(question, key) ==
    LET v == get(question, key, None)
    IN  IF ~truthy(v) THEN "reject"
        ELSE IF ~isstr(v) THEN "raise"
        ELSE IF strip(v.str) = <<>> THEN "reject"
        ELSE "pass"

\* Lines 472-474: difficulty lowered, not trimmed.
check_difficulty(question) ==
    LET v == get(question, "difficulty", Text(<<>>))
    IN  IF ~isstr(v) THEN "raise"
        ELSE IF lower(v.str) \notin difficulty_levels THEN "reject"
        ELSE "pass"

\* The first check that does not pass decides; "accept" is return True.
RECURSIVE first_failure(_)
first_failure(checks) ==
    IF checks = <<>> THEN "accept"
    ELSE IF Head(checks) # "pass" THEN Head(checks)
    ELSE first_failure(Tail(checks))

validate_question(question) ==
    first_failure(<<
        check_question_text(question),
        IF options_ok(get(question, "options", List(<<>>))) THEN "pass" ELSE "reject",
        check_correct_answer(question),
        check_text_field(question, "explanation"),
        check_difficulty(question),
        check_text_field(question, "topic") >>)

\* Candidates to validate: a well-formed candidate with up to MaxDefects of
\* its fields replaced by another value a parsed response can hold.
Keys == {"question", "options", "correct_answer", "explanation", "difficulty", "topic"}

Fill(n) == [i \in 1..n |-> "x"]
Padded(s) == <<" ">> \o s \o <<" ">>
Red == <<"r", "e", "d">>
Opener == <<"w", "h", "a", "t", " ", "i", "s", " ", "a", " ", "l", "o", "o", "p">>

GoodOptions == <<Text(Red), Text(<<"b", "l", "u", "e">>), Text(<<"g", "r", "e", "e", "n">>), Text(<<"7">>)>>

WellFormed ==
    [question |-> Text(Fill(MIN_QUESTION_LENGTH)),
     options |-> List(GoodOptions),
     correct_answer |-> Text(<<"A">>),
     explanation |-> Text(<<"b", "e", "c", "a", "u", "s", "e">>),
     difficulty |-> Text(<<"e", "a", "s", "y">>),
     topic |-> Text(<<"l", "o", "o", "p", "s">>)]

QuestionValues ==
    { Absent, None, Number(<<"7">>), Text(<<>>), Text(<<" ", " ">>),
      Text(Fill(MIN_QUESTION_LENGTH - 1)), Text(Fill(MIN_QUESTION_LENGTH)),
      Text(Padded(Fill(MIN_QUESTION_LENGTH - 1))), Text(Padded(Fill(MIN_QUESTION_LENGTH))),
      Text(Fill(MIN_QUESTION_LENGTH) \o <<"p", "d", "f", "_">>),
      Text(Fill(MIN_QUESTION_LENGTH) \o <<"P", "D", "F", "_">>),
      Text(Opener \o Fill(MIN_QUESTION_LENGTH)),
      Text(upper(Opener) \o Fill(MIN_QUESTION_LENGTH)),
      Text(<<" ">> \o Opener \o Fill(MIN_QUESTION_LENGTH)) }

OptionValues ==
    { Absent, None, Text(<<"a", "b", "c", "d">>), List(<<>>), List(GoodOptions),
      List(SubSeq(GoodOptions, 1, 3)),
      List(Append(GoodOptions, Text(<<"E">>))),
      List([GoodOptions EXCEPT ![4] = Text(<<"E">>)]),
      List([GoodOptions EXCEPT ![1] = Text(Padded(Red))]),
      List([GoodOptions EXCEPT ![2] = Text(<<>>)]),
      List([GoodOptions EXCEPT ![3] = Text(<<" ">>)]),
      List([GoodOptions EXCEPT ![4] = Number(<<"7">>)]) }

AnswerValues ==
    { Absent, None, Number(<<"0">>), Number(<<"7">>), Text(<<>>), Text(<<" ">>),
      Text(<<"A">>), Text(<<"d">>), Text(Padded(<<"B">>)), Text(<<"E">>),
      Text(Red), Text(Padded(Red)), Text(upper(Red)), Text(<<"n", "o", "n", "e">>) }

TextValues ==
    { Absent, None, Number(<<"0">>), Number(<<"7">>), Text(<<>>), Text(<<" ">>),
      Text(<<"b", "e", "c", "a", "u", "s", "e">>), Text(<<"l", "o", "o", "p", "s">>), Text(Padded(<<"o", "k">>)) }

DifficultyValues ==
    { Absent, None, Number(<<"7">>), Text(<<>>),
      Text(<<"e", "a", "s", "y">>), Text(<<"m", "e", "d", "i", "u", "m">>), Text(<<"h", "a", "r", "d">>),
      Text(<<"E", "A", "S", "Y">>), Text(<<"H", "a", "r", "d">>),
      Text(Padded(<<"e", "a", "s", "y">>)), Text(<<"t", "r", "i", "v", "i", "a", "l">>) }

ValuesOf(key) ==
    CASE key = "question" -> QuestionValues
      [] key = "options" -> OptionValues
      [] key = "correct_answer" -> AnswerValues
      [] key = "difficulty" -> DifficultyValues
      [] OTHER -> TextValues

Defects(c) == Cardinality({key \in Keys : c[key] # WellFormed[key]})

CandidatesWith(D) ==
    [question : IF "question" \in D THEN ValuesOf("question") ELSE {WellFormed.question},
     options : IF "options" \in D THEN ValuesOf("options") ELSE {WellFormed.options},
     correct_answer : IF "correct_answer" \in D THEN ValuesOf("correct_answer")
                      ELSE {WellFormed.correct_answer},
     explanation : IF "explanation" \in D THEN ValuesOf("explanation")
                   ELSE {WellFormed.explanation},
     difficulty : IF "difficulty" \in D THEN ValuesOf("difficulty")
                  ELSE {WellFormed.difficulty},
     topic : IF "topic" \in D THEN ValuesOf("topic") ELSE {WellFormed.topic}]

Candidates ==
    UNION { CandidatesWith(D) : D \in {X \in SUBSET Keys : Cardinality(X) <= MaxDefects} }

\* generate_questions_from_pdf_content, lines 620-660: what the loop computes
\* for a candidate that validate_question did not accept.  str(value) of a
\* value that is no string: "None", the decimal digits, the repr of a list.
repr(v) ==
    CASE v.kind = "str" -> <<"'">> \o v.str \o <<"'">>
      [] v.kind = "None" -> <<"N", "o", "n", "e">>
      [] OTHER -> v.str
RECURSIVE join_repr(_)
join_repr(items) ==
    IF items = <<>> THEN <<>>
    ELSE IF Len(items) = 1 THEN repr(items[1])
    ELSE repr(items[1]) \o <<",", " ">> \o join_repr(Tail(items))
str(v) ==
    CASE v.kind = "str" -> v.str
      [] v.kind = "None" -> <<"N", "o", "n", "e">>
      [] v.kind = "list" -> <<"[">> \o join_repr(v.items) \o <<"]">>
      [] OTHER -> v.str

\* Lines 633 and 635: the patterns and openers the loop looks for.
diagnosed_patterns ==
    << <<"p", "d", "f", "_">>,
       <<"v", "i", "d", "e", "o", "_">>,
       <<".", "p", "d", "f">>,
       <<"f", "i", "l", "e", " ", "n", "a", "m", "e">>,
       <<"f", "i", "l", "e", "n", "a", "m", "e">>,
       <<"t", "i", "m", "e", "s", "t", "a", "m", "p">> >>
diagnosed_generic ==
    << <<"w", "h", "a", "t", " ", "i", "s", " ", "p", "y", "t", "h", "o", "n">>,
       <<"w", "h", "a", "t", " ", "i", "s", " ", "a", " ", "v", "a", "r", "i", "a", "b", "l", "e">>,
       <<"w", "h", "a", "t", " ", "i", "s", " ", "a", " ", "f", "u", "n", "c", "t", "i", "o", "n">> >>

\* Lines 629-640: one issue at most about the question text.
question_issues(q) ==
    LET question == get(q, "question", Text(<<>>))
        question_text_lower == lower(str(question))
    IN  IF \E i \in DOMAIN diagnosed_patterns :
               contains(diagnosed_patterns[i], question_text_lower)
        THEN {"contains filename/metadata reference"}
        ELSE IF \E i \in DOMAIN diagnosed_generic :
                    startswith(question_text_lower, diagnosed_generic[i])
        THEN {"generic/trivial question"}
        ELSE IF Len(strip(str(question))) < 30 THEN {"question too short"}
        ELSE IF ~truthy(question) \/ strip(str(question)) = <<>> THEN {"missing question"}
        ELSE {}

\* Lines 642-644: options is no list of four.
options_issues(q) ==
    LET options == get(q, "options", List(<<>>))
    IN  IF options.kind # "list" \/ Len(options.items) # 4
        THEN {"invalid options"} ELSE {}

\* Lines 646-650: correct_answer is missing, or is neither a letter nor in
\* options.  "correct_answer not in options" is evaluated only when the
\* letter test fails; it is a TypeError when options is None or a number, or
\* a string while correct_answer is none.
answer_is_letter(correct_answer) ==
    upper(strip(str(correct_answer))) \in answer_letters
in_options(correct_answer, options) ==
    CASE options.kind = "list" ->
             \E i \in DOMAIN options.items : options.items[i] = correct_answer
      [] options.kind = "str" -> contains(correct_answer.str, options.str)
      [] OTHER -> FALSE
in_options_raises(correct_answer, options) ==
    \/ options.kind \in {"None", "int"}
    \/ options.kind = "str" /\ correct_answer.kind # "str"
answer_issues(q) ==
    LET correct_answer == get(q, "correct_answer", Text(<<>>))
        options == get(q, "options", List(<<>>))
    IN  IF ~truthy(correct_answer) THEN {"missing correct_answer"}
        ELSE IF ~answer_is_letter(correct_answer) /\ ~in_options(correct_answer, options)
        THEN {"invalid correct_answer format"}
        ELSE {}

\* Lines 652-653 and 659-660: the value is falsy or blank once made a string.
text_issues(q, key) ==
    LET v == get(q, key, None)
    IN  IF ~truthy(v) \/ strip(str(v)) = <<>>
        THEN {IF key = "topic" THEN "missing topic" ELSE "missing explanation"}
        ELSE {}

\* Lines 655-657: str(difficulty) lowered is none of the three levels.
difficulty_issues(q) ==
    IF lower(str(get(q, "difficulty", Text(<<>>)))) \notin difficulty_levels
    THEN {"invalid difficulty"} ELSE {}

\* Lines 623-660.  Line 626 slices q.get('question', 'N/A'): a TypeError when
\* the value is None or a number.  An exception leaves the loop for the
\* handler of the attempt.
diagnose(q) ==
    LET correct_answer == get(q, "correct_answer", Text(<<>>))
        options == get(q, "options", List(<<>>))
    IN  IF get(q, "question", Text(<<"N", "/", "A">>)).kind \in {"None", "int"}
        THEN [outcome |-> "raise", issues |-> {}]
        ELSE IF /\ truthy(correct_answer)
                /\ ~answer_is_letter(correct_answer)
                /\ in_options_raises(correct_answer, options)
        THEN [outcome |-> "raise", issues |-> {}]
        ELSE [outcome |-> "issues",
              issues |-> question_issues(q) \cup options_issues(q)
                         \cup answer_issues(q) \cup text_issues(q, "explanation")
                         \cup difficulty_issues(q) \cup text_issues(q, "topic")]

----------------------------------------------------------------------------
(***************************************************************************)
(* determine_difficulty_from_chunks                                        *)
(* (src/app/services/assessment_generator.py).  A chunk is its text's      *)
(* length and the number of technical terms its text contains.             *)
(***************************************************************************)
EASY_BELOW_OR_AT == 200 + 1
EASY_BELOW == 200
HARD_ABOVE == 500
FEW_TERMS == 3
MANY_TERMS == 8

\* The lengths of the nine technical_terms, shortest first.
term_lengths == <<5, 6, 7, 8, 9, 10, 12, 12, 14>>

RECURSIVE SumTo(_, _)
SumTo(s, n) == IF n = 0 THEN 0 ELSE s[n] + SumTo(s, n - 1)

ChunkLengths == {0, 150, 199, 200, 201, 300, 499, 500, 501, 600}
HitCounts == {0, 1, 2, 4, 5, 9}

\* A text holding k different terms is at least as long as the k shortest.
ChunkValues ==
    { c \in [length : ChunkLengths, hits : HitCounts] :
        c.length >= SumTo(term_lengths, c.hits) }

ChunkLists == UNION { [1..n -> ChunkValues] : n \in 0..MaxChunks }

RECURSIVE total_length(_)
total_length(cs) == IF cs = <<>> THEN 0 ELSE Head(cs).length + total_length(Tail(cs))
RECURSIVE tech_count(_)
tech_count(cs) == IF cs = <<>> THEN 0 ELSE Head(cs).hits + tech_count(Tail(cs))

\* avg_length = total_length / len(chunks) is compared with a whole number:
\* avg_length < 200 exactly when total_length < 200 * len(chunks).
determine_difficulty_from_chunks(cs) ==
    IF cs = <<>> THEN "medium"
    ELSE IF total_length(cs) < EASY_BELOW * Len(cs) /\ tech_count(cs) < FEW_TERMS
         THEN "easy"
    ELSE IF total_length(cs) > HARD_ABOVE * Len(cs) \/ tech_count(cs) > MANY_TERMS
         THEN "hard"
    ELSE "medium"

----------------------------------------------------------------------------
(***************************************************************************)
(* Initial states: no process running.  The store is empty or holds rows   *)
(* of the earlier pipeline (src/generate_all_assessments.py), whose        *)
(* create_assessment writes no course_id: at most one such row per source, *)
(* with no questions yet or with a full question set.  Two overlapping     *)
(* processes work on a catalog of one source.  Before a run against a      *)
(* store that may raise, an earlier run of this pipeline may have linked   *)
(* some of the rows to their course.                                       *)
(***************************************************************************)
LegacyRow(s) == [pdf |-> s, course |-> 0, question_count |-> NUM_QUESTIONS_PER_PDF]

RECURSIVE LegacyRows(_, _)
LegacyRows(S, n) ==
    IF n = 0 THEN <<>>
    ELSE IF n \in S THEN Append(LegacyRows(S, n - 1), LegacyRow(n))
    ELSE LegacyRows(S, n - 1)

\* The courses table and the rows after the course backfill of the sources L.
RECURSIVE PriorCourses(_, _)
PriorCourses(L, n) ==
    IF n = 0 THEN <<>>
    ELSE LET t == PriorCourses(L, n - 1) IN
         IF n \in L /\ \A i \in 1..Len(t) : t[i] # detect_course_name(n)
         THEN Append(t, detect_course_name(n))
         ELSE t

LinkedRows(rows, L) ==
    LET t == PriorCourses(L, NumSources) IN
    [i \in 1..Len(rows) |->
        IF rows[i].pdf \in L
        THEN [rows[i] EXCEPT !.course =
                CHOOSE c \in 1..Len(t) : t[c] = detect_course_name(rows[i].pdf)]
        ELSE rows[i]]

InitWith(conc, flt, cat) ==
    /\ concurrent = conc
    /\ faults = flt
    /\ catalog = cat
    /\ chunkless \in (IF conc THEN {{}} ELSE SUBSET cat)
    /\ \E S \in SUBSET catalog :
         \E L \in (IF flt THEN SUBSET S ELSE {{}}) :
            /\ assessments = LinkedRows(LegacyRows(S, NumSources), L)
            /\ qrows \in [1..Cardinality(S) -> {0, NUM_QUESTIONS_PER_PDF}]
            /\ courses = PriorCourses(L, NumSources)
    /\ runs = 0
    /\ pc = [r \in Runners |-> "idle"]
    /\ cache = [r \in Runners |-> [s \in Sources |-> NoRec]]
    /\ pending = [r \in Runners |-> {}]
    /\ todo = [r \in Runners |-> {}]
    /\ skipped = [r \in Runners |-> {}]
    /\ outcome = [r \in Runners |-> [s \in Sources |-> "none"]]
    /\ absentAtCheck = {}
    /\ cur = [r \in Runners |-> 0]
    /\ aid = [r \in Runners |-> 0]
    /\ attempt = [r \in Runners |-> 0]
    /\ calls = [r \in Runners |-> 0]
    /\ batch = [r \in Runners |-> NoBatch]
    /\ result = [r \in Runners |-> 0]
    /\ successful = [r \in Runners |-> 0]
    /\ failed = [r \in Runners |-> 0]
    /\ firstRun = [taken |-> FALSE, qrows |-> <<>>]
    /\ created = [r \in Runners |-> [s \in Sources |-> 0]]
    /\ lookup = NoLookup
    /\ complete = [r \in Runners |-> {}]
    /\ knowledge = [r \in Runners |-> NoKnowledge]
    /\ course_id = [r \in Runners |-> 0]
    /\ listed = [r \in Runners |-> NoLists]
    /\ summary = [r \in Runners |-> NoSummary]

\* No request is being served by the web application.
NoRequest ==
    /\ scoring = NoScoring
    /\ mix = NoMix
    /\ topic = NoTopic
    /\ service = NoService
    /\ diagnosis = NoDiagnosis
    /\ twin = NoTwin

\* The pipeline is started with nothing handed to the validator or the
\* classifier on their own.
NoInput ==
    /\ candidate = WellFormed
    /\ verdict = "none"
    /\ chunks = <<>>
    /\ difficulty = "none"
    /\ ins = NoInsert
    /\ startup = Ready
    /\ NoRequest

Init == InitWith(FALSE, FALSE, Sources) /\ NoInput
InitConcurrent == InitWith(TRUE, FALSE, {1}) /\ NoInput

\* A run against a store whose requests may raise, on a catalog of two
\* sources.
InitFaults == InitWith(FALSE, TRUE, {1, 2}) /\ NoInput

\* validate_question and determine_difficulty_from_chunks called on their own,
\* on any input of the bounded sets, with no pipeline run.
InitValidate ==
    /\ InitWith(FALSE, FALSE, {})
    /\ candidate \in Candidates
    /\ verdict = "none"
    /\ chunks = <<>>
    /\ difficulty = "none"
    /\ ins = NoInsert
    /\ startup = Ready
    /\ NoRequest

\* generate_questions_for_source (src/app/services/assessment_generator.py),
\* lines 473-499: the questions to store are inserted batch_size at a time.
\* An insert raises, returns no data, or returns the rows of the batch.
BATCH_SIZE == 50
InsertOutcomes == {"raise", "nodata", "data"}
QuestionCounts ==
    {1, BATCH_SIZE + 1, (MaxBatches - 1) * BATCH_SIZE + 1}
        \cup {k * BATCH_SIZE : k \in 1..MaxBatches}

\* The rows of questions_to_store[i:i + batch_size].
BatchLength(n, i) == IF n - i < BATCH_SIZE THEN n - i ELSE BATCH_SIZE

\* A run on two sources in which the knowledge-extraction call may end in
\* any way.
InitExtract ==
    /\ InitWith(FALSE, FALSE, {1, 2})
    /\ candidate = WellFormed
    /\ verdict = "none"
    /\ chunks = <<>>
    /\ difficulty = "none"
    /\ ins = NoInsert
    /\ startup = [Ready EXCEPT !.extraction = "any"]
    /\ NoRequest

\* A run against a store whose requests may raise, started with or without
\* its credentials, the completion service reachable or not.
InitStartup ==
    /\ InitWith(FALSE, TRUE, {1, 2})
    /\ candidate = WellFormed
    /\ verdict = "none"
    /\ chunks = <<>>
    /\ difficulty = "none"
    /\ ins = NoInsert
    /\ startup \in [credentials : BOOLEAN, completions : BOOLEAN,
                     store : {"unknown"}, extraction : {"sound"}]
    /\ NoRequest

\* The two encodings of the option k of a question: its letter, and its text.
OptionLetter(k) == <<UpperCase[k]>>
OptionLists ==
    {[i \in 1..4 |-> GoodOptions[i].str],
     <<<<"L", "i", "s", "t">>, <<"T", "u", "p", "l", "e">>,
       <<"D", "i", "c", "t">>, <<"S", "e", "t">>>>}
StoredEncodings(options, k) == {OptionLetter(k), options[k]}
SubmittedEncodings(options, k) ==
    {OptionLetter(k), lower(OptionLetter(k)), options[k], Padded(options[k])}

\* A learner submits one answer to a stored question: the stored
\* correct_answer names option correct_option, the answer names option
\* selected_option, each by letter or by text.
InitScore ==
    /\ InitWith(FALSE, FALSE, {})
    /\ candidate = WellFormed
    /\ verdict = "none"
    /\ chunks = <<>>
    /\ difficulty = "none"
    /\ ins = NoInsert
    /\ startup = Ready
    /\ twin = NoTwin
    /\ diagnosis = NoDiagnosis
    /\ service = NoService
    /\ mix = NoMix
    /\ topic = NoTopic
    /\ \E options \in OptionLists, k \in 1..4, j \in 1..4 :
         \E stored \in StoredEncodings(options, k),
            sent \in SubmittedEncodings(options, j) :
           scoring = [NoScoring EXCEPT !.options = options,
                                       !.correct_option = k,
                                       !.selected_option = j,
                                       !.correct_answer = stored,
                                       !.answer = sent]

\* The names and the identifiers of the sources handed to the classifiers.
SourceNames ==
    {<<>>, <<" ", " ", " ">>, <<"d", "o", "c", "-", "1">>,
     <<"m", "y", " ", "n", "o", "t", "e", "s">>, <<"t", "h", "e", " ", "c", "l", "o", "u", "d">>,
     <<"R", "e", "a", "c", "t", " ", "h", "o", "o", "k", "s">>,
     <<"a", "d", "v", "a", "n", "c", "e", "d", " ", "j", "a", "v", "a", "s", "c", "r", "i", "p", "t">>,
     <<"T", "e", "a", "m", "w", "o", "r", "k">>, <<"m", "o", "d", "u", "l", "e", " ", "3">>,
     <<"m", "o", "d", "u", "l", "e", " ", "4", " ", "d", "o", "c", "k", "e", "r">>,
     <<"o", "'", "n", "e", "i", "l", " ", "m", "e", "m", "o", "i", "r">>,
     <<"1", "s", "t", " ", "q", "u", "a", "r", "t", "e", "r">>,
     <<"q", "u", "a", "r", "t", "e", "r", "l", "y", "_", "b", "u", "d", "g", "e", "t", "_", "r", "e", "v", "i", "e", "w", "_", "f", "o", "r", "_", "f", "i", "n", "a", "n", "c", "e", "_", "2", "0", "2", "4">>,
     <<"t", "e", "a", "m", " ", "c", "o", "l", "l", "a", "b", "o", "r", "a", "t", "i", "o", "n">>,
     <<"U", "n", "k", "n", "o", "w", "n">>,
     <<" ", " ", "s", "p", "a", "c", "e", "d", " ", "o", "u", "t">>,
     <<"l", "o", "o", "p", "s", " ", "a", "n", "d", " ", "l", "i", "s", "t", "s">>}
PdfIds ==
    {<<>>, <<"d", "o", "c", "-", "1">>, <<"k", "8", "s", "-", "0", "7">>, <<"a", "1", "b", "2">>}

\* A source is about to be classified.
InitTopic ==
    /\ InitWith(FALSE, FALSE, {})
    /\ candidate = WellFormed
    /\ verdict = "none"
    /\ chunks = <<>>
    /\ difficulty = "none"
    /\ ins = NoInsert
    /\ startup = Ready
    /\ twin = NoTwin
    /\ diagnosis = NoDiagnosis
    /\ service = NoService
    /\ scoring = NoScoring
    /\ mix = NoMix
    /\ \E source_name \in SourceNames, pdf_id \in PdfIds :
         topic = [NoTopic EXCEPT !.source_name = source_name, !.pdf_id = pdf_id]

\* The service pipeline has not been invoked and has stored nothing.
InitService ==
    /\ InitWith(FALSE, FALSE, {})
    /\ candidate = WellFormed
    /\ verdict = "none"
    /\ chunks = <<>>
    /\ difficulty = "none"
    /\ ins = NoInsert
    /\ startup = Ready
    /\ NoRequest

\* generate_questions_for_source is asked for num_questions questions.
InitMix ==
    /\ InitWith(FALSE, FALSE, {})
    /\ candidate = WellFormed
    /\ verdict = "none"
    /\ chunks = <<>>
    /\ difficulty = "none"
    /\ ins = NoInsert
    /\ startup = Ready
    /\ twin = NoTwin
    /\ diagnosis = NoDiagnosis
    /\ service = NoService
    /\ scoring = NoScoring
    /\ topic = NoTopic
    /\ \E num_questions \in 0..MaxQuestions : mix = [NoMix EXCEPT !.n = num_questions]

\* Both copies of the generation controller are about to make their first call.
InitTwin == InitWith(FALSE, FALSE, {}) /\ NoInput

\* generate_questions_for_source has generated its questions and is about to
\* store them.
InitBatch ==
    /\ InitWith(FALSE, FALSE, {})
    /\ candidate = WellFormed
    /\ verdict = "none"
    /\ chunks = <<>>
    /\ difficulty = "none"
    /\ \E n \in QuestionCounts : ins = [NoInsert EXCEPT !.n = n]
    /\ startup = Ready
    /\ NoRequest

InitDifficulty ==
    /\ InitWith(FALSE, FALSE, {})
    /\ candidate = WellFormed
    /\ verdict = "none"
    /\ chunks \in ChunkLists
    /\ difficulty = "none"
    /\ ins = NoInsert
    /\ startup = Ready
    /\ NoRequest

\* The processes that may run: one at a time unless concurrent.
MayStart(r) ==
    IF concurrent THEN TRUE ELSE r = 1 /\ \A q \in Runners : pc[q] = "idle"

\* Sequential runs are bounded by MaxRuns; overlapping processes run once
\* each; against a store that may raise there is one run.
RunLimit ==
    IF concurrent THEN Cardinality(Runners)
    ELSE IF faults THEN 1 ELSE MaxRuns

\* Mutant: a failed source ends the run.
CountedOrAborted(r, success) ==
    /\ successful' = [successful EXCEPT ![r] = IF success THEN @ + 1 ELSE @]
    /\ failed' = [failed EXCEPT ![r] = IF success THEN @ ELSE @ + 1]
    /\ outcome' = [outcome EXCEPT ![r][cur[r]] =
                        IF success THEN "successful" ELSE "failed"]
    /\ pc' = [pc EXCEPT ![r] = IF success THEN "loop" ELSE "idle"]

\* Mutant: a source whose attempt failed is passed over without being counted.
CountedWhenSuccessful(r, success) ==
    /\ successful' = [successful EXCEPT ![r] = IF success THEN @ + 1 ELSE @]
    /\ failed' = failed
    /\ outcome' = [outcome EXCEPT ![r][cur[r]] =
                        IF success THEN "successful" ELSE "failed"]
    /\ pc' = [pc EXCEPT ![r] = "loop"]

\* generate_all_assessments, lines 1008-1015: the source just attempted is
\* counted and the loop goes on.
Counted(r, success) ==
    /\ successful' = [successful EXCEPT ![r] = IF success THEN @ + 1 ELSE @]
    /\ failed' = [failed EXCEPT ![r] = IF success THEN @ ELSE @ + 1]
    /\ outcome' = [outcome EXCEPT ![r][cur[r]] =
                        IF success THEN "successful" ELSE "failed"]
    /\ pc' = [pc EXCEPT ![r] = "loop"]

\* The source is not counted yet: the process moves on to step p.
Goto(r, p) ==
    /\ pc' = [pc EXCEPT ![r] = p]
    /\ UNCHANGED countVars

\* main: the constructor stops the process in _initialize_clients (sys.exit,
\* lines 72-98) when a credential is missing.
Exit(r) ==
    /\ pc[r] = "idle"
    /\ runs < RunLimit
    /\ MayStart(r)
    /\ ~startup.credentials
    /\ runs' = runs + 1
    /\ UNCHANGED <<envVars, storeVars, complete, startup, pc, cache, pending,
                   todo, skipped, absentAtCheck, cur, aid, genVars, countVars,
                   firstRun, listed, summary, created>>

\* main: the constructor, which fills the cache.
Construct(r) ==
    /\ pc[r] = "idle"
    /\ runs < RunLimit
    /\ MayStart(r)
    /\ startup.credentials
    /\ \E ok \in Ok :
         /\ cache' = [cache EXCEPT ![r] = PopulateCache(ok)]
         /\ startup' = [startup EXCEPT !.store = IF ok THEN "up" ELSE "down"]
    /\ runs' = runs + 1
    /\ complete' = [complete EXCEPT ![r] = CompleteSources]
    /\ pc' = [pc EXCEPT ![r] = "constructed"]
    /\ successful' = [successful EXCEPT ![r] = 0]
    /\ failed' = [failed EXCEPT ![r] = 0]
    /\ outcome' = [outcome EXCEPT ![r] = [s \in Sources |-> "none"]]
    /\ skipped' = [skipped EXCEPT ![r] = {}]
    /\ absentAtCheck' = absentAtCheck \ {r}
    /\ created' = [created EXCEPT ![r] = [s \in Sources |-> 0]]
    /\ listed' = [listed EXCEPT ![r] = NoLists]
    /\ summary' = [summary EXCEPT ![r] = NoSummary]
    /\ UNCHANGED <<envVars, storeVars, pending, todo, cur, aid, genVars, firstRun>>

\* generate_all_assessments, lines 996-999: no pdf_ids ends the run.
FetchPdfIds(r) ==
    /\ pc[r] = "constructed"
    /\ \E ok \in Ok :
         /\ pending' = [pending EXCEPT ![r] = IF ok THEN catalog ELSE {}]
         /\ listed' = [listed EXCEPT ![r].pdf_ids = IF ok THEN catalog ELSE {}]
         /\ pc' = [pc EXCEPT ![r] = IF ok THEN "filter" ELSE "idle"]
    /\ UNCHANGED <<envVars, storeVars, runVars, cache, todo, skipped, absentAtCheck,
                   cur, aid, genVars, countVars, firstRun, summary, created>>

\* _filter_pdfs_requiring_processing: one iteration of its loop.
NeedsProcessing(rec, okq) ==
    \/ rec.id = 0
    \/ rec.course = 0
    \/ ~check_questions_exist(rec.id, okq)

FilterStep(r) ==
    /\ pc[r] = "filter"
    /\ pending[r] # {}
    /\ LET s == SetMin(pending[r]) IN
       \E ok \in Ok, okq \in Ok :
         LET c == check_assessment_exists_by_pdf_id(cache[r], s, ok) IN
         /\ cache' = [cache EXCEPT ![r] = c]
         /\ IF NeedsProcessing(c[s], okq)
            THEN /\ todo' = [todo EXCEPT ![r] = @ \cup {s}]
                 /\ listed' = [listed EXCEPT ![r].pdfs_to_process = @ \cup {s}]
                 /\ UNCHANGED <<skipped, outcome>>
            ELSE /\ skipped' = [skipped EXCEPT ![r] = @ \cup {s}]
                 /\ outcome' = [outcome EXCEPT ![r][s] = "skipped"]
                 /\ UNCHANGED <<todo, listed>>
         /\ pending' = [pending EXCEPT ![r] = @ \ {s}]
         /\ pc' = [pc EXCEPT ![r] = IF pending[r] = {s} THEN "loop" ELSE "filter"]
    /\ UNCHANGED <<envVars, storeVars, runVars, absentAtCheck, cur, aid, genVars,
                   successful, failed, firstRun, summary, created>>

\* generate_assessment_from_pdf, lines 939-943 and 965: the next source of
\* the loop (pdfs_to_process in ascending order) and its existence check.
NextSource(r) ==
    /\ pc[r] = "loop"
    /\ todo[r] # {}
    /\ \E ok \in Ok :
         LET s == SetMin(todo[r])
             c == check_assessment_exists_by_pdf_id(cache[r], s, ok) IN
         /\ todo' = [todo EXCEPT ![r] = @ \ {s}]
         /\ cur' = [cur EXCEPT ![r] = s]
         /\ cache' = [cache EXCEPT ![r] = c]
         /\ aid' = [aid EXCEPT ![r] = c[s].id]
         /\ Goto(r, IF c[s].id = 0 THEN "create"
                    ELSE IF c[s].course = 0 THEN "backfill" ELSE "qcheck1")
    /\ attempt' = [attempt EXCEPT ![r] = 0]
    /\ calls' = [calls EXCEPT ![r] = 0]
    /\ batch' = [batch EXCEPT ![r] = NoBatch]
    /\ result' = [result EXCEPT ![r] = 0]
    /\ knowledge' = [knowledge EXCEPT ![r] = NoKnowledge]
    /\ course_id' = [course_id EXCEPT ![r] = 0]
    /\ UNCHANGED <<envVars, storeVars, runVars, pending, skipped, absentAtCheck,
                   firstRun, listed, summary, created>>

\* generate_assessment_from_pdf, lines 944-959: the course backfill.
Backfill(r) ==
    /\ pc[r] = "backfill"
    /\ \E okc \in Ok, oku \in Ok :
         LET g == get_or_create_course(detect_course_name(cur[r]), okc) IN
         /\ courses' = g.table
         /\ course_id' = [course_id EXCEPT ![r] = g.id]
         /\ IF g.id # 0 /\ oku
            THEN /\ assessments' = [assessments EXCEPT ![aid[r]].course = g.id]
                 /\ cache' = [cache EXCEPT ![r][cur[r]].course = g.id]
            ELSE UNCHANGED <<assessments, cache>>
    /\ Goto(r, "qcheck1")
    /\ UNCHANGED <<envVars, qrows, runVars, pending, todo, skipped, absentAtCheck,
                   cur, aid, attempt, calls, batch, result, knowledge, firstRun, listed, summary,
                   created>>

\* generate_assessment_from_pdf, lines 961-964.
QCheck1(r) ==
    /\ pc[r] = "qcheck1"
    /\ \E ok \in Ok :
         IF check_questions_exist(aid[r], ok)
         THEN Counted(r, TRUE)
         ELSE Goto(r, "chunks")
    /\ UNCHANGED <<envVars, storeVars, runVars, cache, pending, todo, skipped,
                   absentAtCheck, cur, aid, genVars, firstRun, listed, summary, created>>

\* create_assessment, lines 796-798: the duplicate check.
CreateCheck(r) ==
    /\ pc[r] = "create"
    /\ \E ok \in Ok :
         LET c == check_assessment_exists_by_pdf_id(cache[r], cur[r], ok) IN
         /\ cache' = [cache EXCEPT ![r] = c]
         /\ aid' = [aid EXCEPT ![r] = c[cur[r]].id]
         /\ Goto(r, IF c[cur[r]].id # 0 THEN "chunks" ELSE "insertA")
    /\ absentAtCheck' = IF RowsOf(cur[r]) = {} THEN absentAtCheck \cup {r}
                        ELSE absentAtCheck \ {r}
    /\ UNCHANGED <<envVars, storeVars, runVars, pending, todo, skipped, cur,
                   genVars, firstRun, listed, summary, created>>

\* create_assessment, lines 806-853: the course, the insert and the cache.
NewAssessment(s, course) ==
    [pdf |-> s, course |-> course, question_count |-> NUM_QUESTIONS_PER_PDF]

\* create_assessment, lines 841-843: the table after the insert.
InsertRow(s, course) == Append(assessments, NewAssessment(s, course))

InsertAssessment(r) ==
    /\ pc[r] = "insertA"
    /\ \E okc \in Ok, oki \in Ok :
         LET g == get_or_create_course(detect_course_name(cur[r]), okc)
             rows == InsertRow(cur[r], g.id) IN
         /\ courses' = g.table
         /\ IF oki
            THEN /\ assessments' = rows
                 /\ qrows' = [i \in 1..Len(rows) |->
                                IF i <= Len(qrows) THEN qrows[i] ELSE 0]
                 /\ cache' = [cache EXCEPT ![r][cur[r]] =
                                [id |-> Len(rows), course |-> g.id]]
                 /\ aid' = [aid EXCEPT ![r] = Len(rows)]
                 /\ created' = [created EXCEPT ![r][cur[r]] = Len(rows)]
                 /\ Goto(r, "chunks")
            ELSE /\ Counted(r, FALSE)
                 /\ UNCHANGED <<assessments, qrows, cache, aid, created>>
    /\ UNCHANGED <<envVars, runVars, pending, todo, skipped, absentAtCheck, cur,
                   genVars, firstRun, listed, summary>>

\* generate_assessment_from_pdf, lines 970-972, with fetch_pdf_chunks.
FetchChunks(r) ==
    /\ pc[r] = "chunks"
    /\ \E ok \in Ok :
         IF ok /\ cur[r] \notin chunkless
         THEN Goto(r, "qcheck2")
         ELSE Counted(r, FALSE)
    /\ UNCHANGED <<envVars, storeVars, runVars, cache, pending, todo, skipped,
                   absentAtCheck, cur, aid, genVars, firstRun, listed, summary, created>>

\* generate_assessment_from_pdf, lines 974-975.
QCheck2(r) ==
    /\ pc[r] = "qcheck2"
    /\ \E ok \in Ok :
         IF check_questions_exist(aid[r], ok)
         THEN Counted(r, TRUE)
         ELSE Goto(r, "extract")
    /\ UNCHANGED <<envVars, storeVars, runVars, cache, pending, todo, skipped,
                   absentAtCheck, cur, aid, genVars, firstRun, listed, summary, created>>

\* The ways the knowledge-extraction completion call can end: it raises (a
\* timeout is raised too), its content does not decode as JSON, or it decodes
\* to the empty object, to the structure asked for, or to a value that is
\* not an object.  An unreachable completion service raises.
ExtractionOutcomes ==
    IF ~startup.completions THEN {"raise"}
    ELSE IF startup.extraction = "sound" THEN {"knowledge"}
    ELSE {"raise", "undecodable", "empty", "knowledge", "misshapen"}

\* Mutant: the exception of the call or of json.loads leaves the function.
extract_knowledge_unguarded(o) ==
    IF o \in {"raise", "undecodable"} THEN "error"
    ELSE IF o = "empty" THEN "{}"
    ELSE IF o = "knowledge" THEN "dict" ELSE "other"

\* extract_knowledge_from_content, lines 364-393: the value returned.
extract_knowledge_from_content(o) ==
    IF o \in {"raise", "undecodable", "empty"} THEN "{}"
    ELSE IF o = "knowledge" THEN "dict" ELSE "other"

\* generate_questions_from_pdf_content, lines 492-514: the extraction and the
\* knowledge summary.  knowledge.get on a value that is no object raises, and
\* generate_assessment_from_pdf returns None from its except clause.
Extract(r) ==
    /\ pc[r] = "extract"
    /\ \E o \in ExtractionOutcomes :
         LET k == extract_knowledge_from_content(o) IN
         IF k \in {"{}", "dict"}
         THEN /\ knowledge' = [knowledge EXCEPT ![r] =
                    [outcome |-> o,
                     summary |-> IF k = "dict" THEN "hint" ELSE "empty"]]
              /\ Goto(r, "generate")
         ELSE /\ knowledge' = [knowledge EXCEPT ![r] =
                    [outcome |-> o, summary |-> "none"]]
              /\ Counted(r, FALSE)
    /\ UNCHANGED <<envVars, storeVars, runVars, cache, pending, todo, skipped,
                   absentAtCheck, cur, aid, attempt, calls, batch, result,
                   course_id, firstRun, listed, summary, created>>

\* The responses of the completion model, parsed and validated: the number
\* of candidates validate_question accepts and whether it rejects any
\* (invalid_questions is non-empty), or a response that does not parse (or a
\* call that raises).  The accepted counts are the empty batch and every
\* count from just below the hard floor to just above the target.
ValidCounts == {0} \cup ((HARD_FLOOR - 1)..(NUM_QUESTIONS_PER_PDF + 1))
ErrorResponse == [err |-> TRUE, valid |-> 0, rejected |-> FALSE]
Responses ==
    {ErrorResponse} \cup [err : {FALSE}, valid : ValidCounts, rejected : BOOLEAN]

\* Against a store that may raise, the responses are held to an error, a
\* full batch and a batch below the floor.
ResponsesUnderFaults ==
    {ErrorResponse,
     [err |-> FALSE, valid |-> NUM_QUESTIONS_PER_PDF, rejected |-> FALSE],
     [err |-> FALSE, valid |-> HARD_FLOOR - 1, rejected |-> TRUE]}

\* generate_questions_from_pdf_content, lines 580-660: one completion call,
\* its parse and the validation of every candidate.
Complete(r) ==
    /\ pc[r] = "generate"
    /\ \E b \in (IF ~startup.completions THEN {ErrorResponse}
                ELSE IF faults THEN ResponsesUnderFaults ELSE Responses) :
         batch' = [batch EXCEPT ![r] = b]
    /\ calls' = [calls EXCEPT ![r] = @ + 1]
    /\ Goto(r, "decide")
    /\ UNCHANGED <<envVars, storeVars, runVars, cache, pending, todo, skipped,
                   absentAtCheck, cur, aid, attempt, result, knowledge, course_id,
                   firstRun, listed, summary, created>>

\* generate_questions_from_pdf_content, lines 662-698: accept, retry or give up.
Verdict(b, a) ==
    IF b.err THEN AttemptError(a) ELSE AttemptOutcome(b.valid, b.rejected, a)

ControllerStep(r) ==
    /\ pc[r] = "decide"
    /\ LET d == Verdict(batch[r], attempt[r]) IN
       IF d.kind = "retry" /\ attempt[r] + 1 < MAX_RETRIES
       THEN /\ attempt' = [attempt EXCEPT ![r] = @ + 1]
            /\ Goto(r, "generate")
            /\ result' = result
       ELSE /\ result' = [result EXCEPT ![r] = d.n]
            /\ Goto(r, "returned")
            /\ attempt' = attempt
    /\ UNCHANGED <<envVars, storeVars, runVars, cache, pending, todo, skipped,
                   absentAtCheck, cur, aid, calls, batch, knowledge, course_id,
                   firstRun, listed, summary, created>>

\* generate_assessment_from_pdf, lines 977-981.
CallerCheck(r) ==
    /\ pc[r] = "returned"
    /\ IF Insufficient(result[r])
       THEN Counted(r, FALSE)
       ELSE Goto(r, "insertQcheck")
    /\ UNCHANGED <<envVars, storeVars, runVars, cache, pending, todo, skipped,
                   absentAtCheck, cur, aid, genVars, firstRun, listed, summary, created>>

\* insert_questions, lines 871-879: the duplicate check.
InsertQuestionsCheck(r) ==
    /\ pc[r] = "insertQcheck"
    /\ \E ok \in Ok :
         IF ~ok THEN Counted(r, FALSE)
         ELSE IF HasQuestions(aid[r]) THEN Counted(r, TRUE)
         ELSE Goto(r, "insertQ")
    /\ UNCHANGED <<envVars, storeVars, runVars, cache, pending, todo, skipped,
                   absentAtCheck, cur, aid, genVars, firstRun, listed, summary, created>>

\* insert_questions, lines 885-909: one insert of all the records.
InsertQuestions(r) ==
    /\ pc[r] = "insertQ"
    /\ \E ok \in Ok :
         IF ok
         THEN /\ qrows' = [qrows EXCEPT ![aid[r]] = @ + result[r]]
              /\ Counted(r, TRUE)
         ELSE /\ qrows' = qrows
              /\ Counted(r, FALSE)
    /\ UNCHANGED <<envVars, assessments, courses, runVars, cache, pending, todo,
                   skipped, absentAtCheck, cur, aid, genVars, firstRun, listed, summary, created>>

\* generate_all_assessments, lines 1020-1024: the summary of the run.
print_summary(r) ==
    [printed |-> TRUE,
     detected |-> Cardinality(listed[r].pdf_ids),
     skipped |-> Cardinality(skipped[r]),
     attempted |-> Cardinality(listed[r].pdfs_to_process),
     successful |-> successful[r],
     failed |-> failed[r]]

\* generate_all_assessments, lines 1017-1024: the loop is over; main returns.
FinishRun(r) ==
    /\ pc[r] = "loop"
    /\ todo[r] = {}
    /\ \E ok \in Ok : cache' = [cache EXCEPT ![r] = PopulateCache(ok)]
    /\ pc' = [pc EXCEPT ![r] = "idle"]
    /\ firstRun' = IF firstRun.taken THEN firstRun
                   ELSE [taken |-> TRUE, qrows |-> qrows]
    /\ cur' = [cur EXCEPT ![r] = 0]
    /\ aid' = [aid EXCEPT ![r] = 0]
    /\ attempt' = [attempt EXCEPT ![r] = 0]
    /\ calls' = [calls EXCEPT ![r] = 0]
    /\ batch' = [batch EXCEPT ![r] = NoBatch]
    /\ result' = [result EXCEPT ![r] = 0]
    /\ knowledge' = [knowledge EXCEPT ![r] = NoKnowledge]
    /\ course_id' = [course_id EXCEPT ![r] = 0]
    /\ summary' = [summary EXCEPT ![r] = print_summary(r)]
    /\ UNCHANGED <<envVars, storeVars, runVars, pending, todo, skipped,
                   absentAtCheck, countVars, created, listed>>

Next ==
    \E r \in Runners :
        \/ Construct(r)
        \/ FetchPdfIds(r)
        \/ FilterStep(r)
        \/ NextSource(r)
        \/ Backfill(r)
        \/ QCheck1(r)
        \/ CreateCheck(r)
        \/ InsertAssessment(r)
        \/ FetchChunks(r)
        \/ QCheck2(r)
        \/ Extract(r)
        \/ Complete(r)
        \/ ControllerStep(r)
        \/ CallerCheck(r)
        \/ InsertQuestionsCheck(r)
        \/ InsertQuestions(r)
        \/ FinishRun(r)

NextStartup == Next \/ \E r \in Runners : Exit(r)

\* check_assessment_exists_by_pdf_id called on its own, between two sources
\* of the loop, for a source whose Assessment this process has created:
\* whether the call went to the store, and the id of the record it returned.
Lookup(r) ==
    /\ pc[r] = "loop"
    /\ \E s \in Sources, ok \in Ok :
         /\ created[r][s] # 0
         /\ LET c == check_assessment_exists_by_pdf_id(cache[r], s, ok) IN
            /\ cache' = [cache EXCEPT ![r] = c]
            /\ lookup' = [by |-> r, pdf |-> s, queried |-> cache[r][s].id = 0,
                          id |-> c[s].id, made |-> created[r][s]]
    /\ UNCHANGED <<concurrent, faults, catalog, chunkless, candidate, verdict,
                   chunks, difficulty, ins, serviceVars, storeVars, runVars, pc, pending, todo, skipped,
                   absentAtCheck, cur, aid, genVars, countVars, firstRun, listed, summary, created>>

NextLookup == Next \/ \E r \in Runners : Lookup(r)

\* validate_question applied to the candidate.
ValidateQuestion ==
    /\ verdict = "none"
    /\ verdict' = validate_question(candidate)
    /\ UNCHANGED <<concurrent, faults, catalog, chunkless, candidate, chunks,
                   difficulty, lookup, ins, serviceVars, storeVars, runVars, pc, cache, pending, todo, skipped,
                   absentAtCheck, cur, aid, genVars, countVars, firstRun, listed, summary, created>>

\* The else branch of the loop over the parsed candidates, lines 623-660:
\* the issues of a candidate that validate_question did not accept.
Diagnose ==
    /\ verdict = "reject"
    /\ diagnosis.outcome = "none"
    /\ diagnosis' = diagnose(candidate)
    /\ UNCHANGED <<concurrent, faults, catalog, chunkless, candidate, verdict, chunks,
                   difficulty, lookup, ins, scoring, mix, topic, service, twin, storeVars, runVars,
                   pc, cache, pending, todo, skipped,
                   absentAtCheck, cur, aid, genVars, countVars, firstRun, listed, summary, created>>

\* determine_difficulty_from_chunks applied to the chunks.
DetermineDifficulty ==
    /\ difficulty = "none"
    /\ difficulty' = determine_difficulty_from_chunks(chunks)
    /\ UNCHANGED <<concurrent, faults, catalog, chunkless, candidate, verdict,
                   chunks, lookup, ins, serviceVars, storeVars, runVars, pc, cache, pending, todo, skipped,
                   absentAtCheck, cur, aid, genVars, countVars, firstRun, listed, summary, created>>

\* The pipeline and the other functions are not involved in the insert.
IdleButInsert ==
    UNCHANGED <<concurrent, faults, catalog, chunkless, candidate, verdict,
                chunks, difficulty, lookup, serviceVars, storeVars, runVars,
                pc, cache, pending, todo, skipped, absentAtCheck, cur, aid,
                genVars, countVars, firstRun, listed, summary, created>>

\* One iteration of the loop at line 478.
InsertBatch ==
    /\ ins.result = "none"
    /\ ins.i < ins.n
    /\ \E o \in InsertOutcomes :
         ins' = [ins EXCEPT
                   !.i = @ + BATCH_SIZE,
                   !.batches = Append(@, [length |-> BatchLength(ins.n, ins.i),
                                          outcome |-> o]),
                   !.inserted = IF o = "data" THEN @ + BatchLength(ins.n, ins.i)
                                ELSE @]
    /\ IdleButInsert

\* Mutant: the result of TopicQuestionService.store_questions.
store_success_always(inserted_count) == TRUE

\* Line 502: "success": len(inserted_ids) > 0.
store_success(inserted_count) == inserted_count > 0

\* Lines 501-523: the loop is over and the result is reported.
StoreResult ==
    /\ ins.result = "none"
    /\ ins.i >= ins.n
    /\ ins' = [ins EXCEPT !.result =
                 IF store_success(ins.inserted) THEN "success" ELSE "failure"]
    /\ IdleButInsert

\* The pipeline, the validator, the classifier of difficulty and the batched
\* insert are not involved in a request to the web application.
IdlePipeline ==
    UNCHANGED <<concurrent, faults, catalog, chunkless, candidate, verdict,
                chunks, difficulty, lookup, ins, storeVars, runVars, pc, cache,
                pending, todo, skipped, absentAtCheck, cur, aid, genVars,
                countVars, firstRun, listed, summary, created>>

\* submit_assessment (src/app/routes/dashboard.py), lines 856-860: both
\* answers are stripped and upper-cased, then compared as strings.
is_correct(answer, correct_answer) ==
    upper(strip(answer)) = upper(strip(correct_answer))

\* submit_assessment, lines 849-900, for a submission of one answer: the
\* answer is scored and the total is written to the attempt.
ScoreAnswer ==
    /\ scoring.is_correct = "none"
    /\ LET right == is_correct(scoring.answer, scoring.correct_answer) IN
       scoring' = [scoring EXCEPT
                     !.is_correct = IF right THEN "yes" ELSE "no",
                     !.total_score = IF right THEN 1 ELSE 0]
    /\ UNCHANGED <<mix, topic, service, diagnosis, twin>>
    /\ IdlePipeline

NextScore == ScoreAnswer

\* generate_questions_for_source (src/app/services/assessment_generator.py),
\* lines 405-409, and generate_questions_from_chunks, lines 269-272: the
\* numbers of easy, medium and hard questions asked for.  // is \div.
easy_count(num_questions) == num_questions \div 3
\* Mutant: four medium questions in ten, as in the comment at line 406.
medium_count_four_in_ten(num_questions) == (num_questions * 4) \div 10
medium_count(num_questions) == (num_questions * 2) \div 3
hard_count(num_questions) ==
    num_questions - easy_count(num_questions) - medium_count(num_questions)

\* create_assessment_from_questions, lines 556-562: question_distribution.
question_distribution(question_count) ==
    [easy |-> question_count \div 3,
     medium |-> (question_count * 2) \div 3,
     hard |-> question_count - (question_count \div 3)
                  - ((question_count * 2) \div 3)]

\* generate_questions_from_embeddings (src/app/services/topic_question_service.py),
\* line 103: the number asked of the completion model is kept within 5..10.
limited(num_questions) ==
    IF num_questions < 5 THEN 5 ELSE IF num_questions > 10 THEN 10 ELSE num_questions

\* generate_questions_for_source, lines 414-444: a level is requested from
\* the synthesizer when its count is positive.
asked_of_synthesizer(count) == IF count > 0 THEN limited(count) ELSE 0

\* generate_questions_for_source, lines 405-444.
MixCounts ==
    /\ mix.counts = <<>>
    /\ mix' = [mix EXCEPT !.counts = [easy |-> easy_count(mix.n),
                                      medium |-> medium_count(mix.n),
                                      hard |-> hard_count(mix.n)],
                          !.asked = [easy |-> asked_of_synthesizer(easy_count(mix.n)),
                                     medium |-> asked_of_synthesizer(medium_count(mix.n)),
                                     hard |-> asked_of_synthesizer(hard_count(mix.n))]]
    /\ UNCHANGED <<scoring, topic, service, diagnosis, twin>>
    /\ IdlePipeline

\* generate_all_assessments, lines 660-679: the blueprint is made for the
\* questions that were generated, at least one and at most those asked for.
MakeBlueprint ==
    /\ mix.counts # <<>>
    /\ mix.blueprint = <<>>
    /\ \E question_count \in 1..mix.n :
         mix' = [mix EXCEPT !.question_count = question_count,
                            !.blueprint = question_distribution(question_count)]
    /\ UNCHANGED <<scoring, topic, service, diagnosis, twin>>
    /\ IdlePipeline

NextMix == MixCounts \/ MakeBlueprint

\* The two copies of generate_questions_from_pdf_content
\* (src/scripts/generate_all_assessments.py, lines 580-698, and
\* src/generate_all_assessments.py, lines 434-573) given the same responses of
\* the completion model: the i-th response answers the i-th call of each copy
\* that makes one.  The except clauses of the two copies are the same.
VerdictRoot(b, a) ==
    IF b.err THEN AttemptError(a) ELSE AttemptOutcomeRoot(b.valid, b.rejected, a)

\* One pass of the loop of a copy whose decision on the response is d.
Advance(c, d) ==
    IF c.kind # "running" THEN c
    ELSE IF d.kind = "retry" /\ c.attempt + 1 < MAX_RETRIES
    THEN [c EXCEPT !.attempt = @ + 1, !.calls = @ + 1]
    ELSE [c EXCEPT !.kind = "returned", !.calls = @ + 1, !.n = d.n]

TwinRespond ==
    /\ "running" \in {twin.scripts.kind, twin.root.kind}
    /\ \E b \in Responses :
         twin' = [responses |-> Append(twin.responses, b),
                  scripts |-> Advance(twin.scripts, Verdict(b, twin.scripts.attempt)),
                  root |-> Advance(twin.root, VerdictRoot(b, twin.root.attempt))]
    /\ UNCHANGED <<scoring, mix, topic, service, diagnosis>>
    /\ IdlePipeline

NextTwin == TwinRespond

\* generate_all_assessments of the service path
\* (src/app/services/assessment_generator.py), lines 599-712, reached from
\* POST /api/generateAssessments and POST /api/embeddings/sync.  The store
\* is kept as the numbers of Assessment and Question rows made for each source.
SERVICE_NUM_QUESTIONS == 10

\* Lines 615-633: the sources are listed; nothing about them is looked up.
ServiceInvoke ==
    /\ service.todo = {}
    /\ service.runs < MaxRuns
    /\ service' = [service EXCEPT !.runs = @ + 1, !.todo = Sources]
    /\ UNCHANGED <<scoring, mix, topic, diagnosis, twin>>
    /\ IdlePipeline

\* The totals of the two tables.
ServiceRows(s) ==
    [taken |-> TRUE, assessments |-> Total(s.assessments),
     questions |-> Total(s.questions)]

\* Lines 635-694, one iteration: generate_questions_for_source stores its
\* questions or fails; when it stored some, create_assessment_from_questions
\* inserts an Assessment or fails.
ServiceSource(s, stored, made) ==
    [service EXCEPT
       !.questions[s] = @ + stored,
       !.assessments[s] = IF stored > 0 /\ made THEN @ + 1 ELSE @]

ServiceStep ==
    /\ service.todo # {}
    /\ \E stored \in {0, SERVICE_NUM_QUESTIONS}, made \in BOOLEAN :
         LET s == SetMin(service.todo)
             after == [ServiceSource(s, stored, made) EXCEPT !.todo = @ \ {s}]
         IN  service' =
               IF after.todo = {} /\ ~after.first.taken
               THEN [after EXCEPT !.first = ServiceRows(after)]
               ELSE after
    /\ UNCHANGED <<scoring, mix, topic, diagnosis, twin>>
    /\ IdlePipeline

NextService == ServiceInvoke \/ ServiceStep

\* extract_topic_from_source (src/app/services/assessment_generator.py), lines
\* 214-224: the keywords in the order of the dict, each with its skill.
skill_keywords ==
    <<[keyword |-> <<"r", "e", "a", "c", "t">>, skill |-> <<"R", "e", "a", "c", "t">>],
      [keyword |-> <<"j", "a", "v", "a", "s", "c", "r", "i", "p", "t">>, skill |-> <<"J", "a", "v", "a", "S", "c", "r", "i", "p", "t">>],
      [keyword |-> <<"t", "y", "p", "e", "s", "c", "r", "i", "p", "t">>, skill |-> <<"T", "y", "p", "e", "S", "c", "r", "i", "p", "t">>],
      [keyword |-> <<"p", "y", "t", "h", "o", "n">>, skill |-> <<"P", "y", "t", "h", "o", "n">>],
      [keyword |-> <<"j", "a", "v", "a">>, skill |-> <<"J", "a", "v", "a">>],
      [keyword |-> <<"p", "r", "o", "b", "l", "e", "m">>, skill |-> <<"P", "r", "o", "b", "l", "e", "m", " ", "S", "o", "l", "v", "i", "n", "g">>],
      [keyword |-> <<"c", "o", "m", "m", "u", "n", "i", "c", "a", "t", "i", "o", "n">>, skill |-> <<"C", "o", "m", "m", "u", "n", "i", "c", "a", "t", "i", "o", "n">>],
      [keyword |-> <<"t", "e", "a", "m", "w", "o", "r", "k">>, skill |-> <<"T", "e", "a", "m", "w", "o", "r", "k">>],
      [keyword |-> <<"c", "o", "l", "l", "a", "b", "o", "r", "a", "t", "i", "o", "n">>, skill |-> <<"C", "o", "m", "m", "u", "n", "i", "c", "a", "t", "i", "o", "n", " ", "&", " ", "C", "o", "l", "l", "a", "b", "o", "r", "a", "t", "i", "o", "n">>]>>

\* detect_course_name (src/scripts/generate_all_assessments.py), lines
\* 236-248 and 262-263: the indicators of each course.
devops_indicators ==
    {<<"d", "e", "v", "o", "p", "s">>, <<"d", "o", "c", "k", "e", "r">>,
     <<"k", "u", "b", "e", "r", "n", "e", "t", "e", "s">>, <<"k", "8", "s">>,
     <<"j", "e", "n", "k", "i", "n", "s">>, <<"s", "o", "n", "a", "r", "q", "u", "b", "e">>,
     <<"l", "i", "n", "u", "x">>, <<"g", "i", "t">>, <<"c", "i", "/", "c", "d">>,
     <<"t", "e", "r", "r", "a", "f", "o", "r", "m">>, <<"a", "n", "s", "i", "b", "l", "e">>,
     <<"a", "w", "s">>, <<"a", "z", "u", "r", "e">>, <<"g", "c", "p">>,
     <<"n", "e", "t", "w", "o", "r", "k", "i", "n", "g">>, <<"c", "l", "o", "u", "d">>,
     <<"c", "o", "n", "t", "a", "i", "n", "e", "r">>,
     <<"o", "r", "c", "h", "e", "s", "t", "r", "a", "t", "i", "o", "n">>,
     <<"d", "e", "p", "l", "o", "y", "m", "e", "n", "t">>,
     <<"i", "n", "f", "r", "a", "s", "t", "r", "u", "c", "t", "u", "r", "e">>}
python_indicators ==
    {<<"p", "y", "t", "h", "o", "n">>, <<"d", "a", "t", "a", "t", "y", "p", "e", "s">>,
     <<"l", "o", "o", "p", "s">>, <<"f", "u", "n", "c", "t", "i", "o", "n", "s">>,
     <<"c", "l", "a", "s", "s", "e", "s">>, <<"l", "i", "s", "t">>, <<"d", "i", "c", "t">>,
     <<"t", "u", "p", "l", "e">>, <<"s", "e", "t">>,
     <<"c", "o", "m", "p", "r", "e", "h", "e", "n", "s", "i", "o", "n">>,
     <<"d", "e", "c", "o", "r", "a", "t", "o", "r">>,
     <<"g", "e", "n", "e", "r", "a", "t", "o", "r">>, <<"i", "t", "e", "r", "a", "t", "o", "r">>,
     <<"e", "x", "c", "e", "p", "t", "i", "o", "n">>, <<"i", "m", "p", "o", "r", "t">>,
     <<"p", "a", "c", "k", "a", "g", "e">>}
devops_module_keywords ==
    {<<"d", "o", "c", "k", "e", "r">>, <<"k", "u", "b", "e", "r", "n", "e", "t", "e", "s">>,
     <<"s", "o", "n", "a", "r", "q", "u", "b", "e">>,
     <<"n", "e", "t", "w", "o", "r", "k", "i", "n", "g">>, <<"c", "l", "o", "u", "d">>,
     <<"d", "e", "v", "o", "p", "s">>, <<"l", "i", "n", "u", "x">>,
     <<"j", "e", "n", "k", "i", "n", "s">>, <<"t", "e", "r", "r", "a", "f", "o", "r", "m">>}
ModuleWord == <<"m", "o", "d", "u", "l", "e">>
General == <<"G", "e", "n", "e", "r", "a", "l">>
PythonCourse == <<"P", "y", "t", "h", "o", "n">>
DevOpsCourse == <<"D", "e", "v", "O", "p", "s">>
TOPIC_LENGTH == 30

\* str.split()[0]: the first run of characters that are not whitespace.
RECURSIVE word(_)
word(s) == IF s = <<>> \/ Head(s) \in Whitespace THEN <<>> ELSE <<Head(s)>> \o word(Tail(s))
first_word(s) == word(lstrip(s))

\* str.title: a letter that follows no letter is upper-cased, every other
\* letter is lower-cased.
IsLetter(c) == InTable(c, LowerCase) \/ InTable(c, UpperCase)
title(s) ==
    [i \in DOMAIN s |->
        IF ~IsLetter(s[i]) THEN s[i]
        ELSE IF i = 1 \/ ~IsLetter(s[i - 1]) THEN upper(<<s[i]>>)[1]
        ELSE lower(<<s[i]>>)[1]]

\* s[:n].
prefix(s, n) == SubSeq(s, 1, IF Len(s) < n THEN Len(s) ELSE n)

\* Mutant: every unmatched name is classified as "General".
fallback_general(source_name) == General

\* extract_topic_from_source, lines 233-240: no keyword matched.
fallback_topic(source_name) ==
    IF InTable(" ", source_name) /\ first_word(source_name) # <<>>
    THEN title(first_word(source_name))
    ELSE IF source_name # <<>> THEN prefix(source_name, TOPIC_LENGTH)
    ELSE General

\* extract_topic_from_source, lines 226-240.
extract_topic_from_source(source_name) ==
    LET source_lower == lower(source_name)
        matched == {i \in DOMAIN skill_keywords :
                       contains(skill_keywords[i].keyword, source_lower)}
    IN  IF matched # {} THEN skill_keywords[SetMin(matched)].skill
        ELSE fallback_topic(source_name)

\* detect_course_name, lines 226-232: the text that is searched.  A title
\* that is None and an empty title take the same branch.
search_text(pdf_title, pdf_id) ==
    strip((IF pdf_title # <<>> THEN lower(pdf_title) ELSE <<>>)
          \o (IF pdf_id # <<>> THEN <<" ">> \o lower(pdf_id) ELSE <<>>))

\* detect_course_name, lines 250-271, on the title and id of a source.
detect_course(pdf_title, pdf_id) ==
    LET text == search_text(pdf_title, pdf_id) IN
    IF \E indicator \in devops_indicators : contains(indicator, text)
    THEN DevOpsCourse
    ELSE IF \E indicator \in python_indicators : contains(indicator, text)
    THEN PythonCourse
    ELSE IF contains(ModuleWord, text)
    THEN (IF \E keyword \in devops_module_keywords : contains(keyword, text)
          THEN DevOpsCourse ELSE PythonCourse)
    ELSE PythonCourse

\* generate_questions_for_source, line 399: the topic of the source.
ExtractTopic ==
    /\ ~topic.extracted
    /\ topic' = [topic EXCEPT !.extracted = TRUE,
                              !.topic = extract_topic_from_source(topic.source_name)]
    /\ UNCHANGED <<scoring, mix, service, diagnosis, twin>>
    /\ IdlePipeline

\* create_assessment, lines 806-808: the course of the source.
DetectCourse ==
    /\ ~topic.detected
    /\ topic' = [topic EXCEPT !.detected = TRUE,
                              !.course = detect_course(topic.source_name, topic.pdf_id)]
    /\ UNCHANGED <<scoring, mix, service, diagnosis, twin>>
    /\ IdlePipeline

NextTopic == ExtractTopic \/ DetectCourse
NextBatch == InsertBatch \/ StoreResult
NextValidate == ValidateQuestion \/ Diagnose
NextDifficulty == DetermineDifficulty

Spec == Init /\ [][Next]_vars
SpecConcurrent == InitConcurrent /\ [][Next]_vars
SpecFaults == InitFaults /\ [][NextLookup]_vars
SpecExtract == InitExtract /\ [][Next]_vars
SpecService == InitService /\ [][NextService]_vars
SpecStartup == InitStartup /\ [][NextStartup]_vars
SpecScore == InitScore /\ [][NextScore]_vars
SpecMix == InitMix /\ [][NextMix]_vars
SpecTwin == InitTwin /\ [][NextTwin]_vars
SpecTopic == InitTopic /\ [][NextTopic]_vars
SpecBatch == InitBatch /\ [][NextBatch]_vars
SpecValidate == InitValidate /\ [][NextValidate]_vars
SpecDifficulty == InitDifficulty /\ [][NextDifficulty]_vars

----------------------------------------------------------------------------
C2_QuestionsWrittenOnce ==
    [][\A i \in 1..Len(qrows) : qrows[i] > 0 => qrows'[i] = qrows[i]]_vars

\* generate_assessment_from_pdf is processing a source whose Assessment
\* already has its questions.
C2_Witness ==
    \E r \in Runners : pc[r] = "qcheck1" /\ qrows[aid[r]] > 0

C4_DuplicateOnlyByRace ==
    \A s \in Sources : Cardinality(RowsOf(s)) >= 2 => absentAtCheck = Runners

\* Both processes have ended and the store holds two Assessments for the
\* same source.
C4_Witness ==
    /\ \A r \in Runners : pc[r] = "idle"
    /\ \E s \in Sources : Cardinality(RowsOf(s)) = 2

\* C5 as stated: on every attempt a batch with 20 or more accepted
\* candidates is returned trimmed to 20, a batch with 18 or 19 is returned as
\* it is on that attempt, and a batch with 17 or fewer is retried while
\* attempts remain.
C5_AcceptanceOnEveryAttempt ==
    [][\A r \in Runners :
         (pc[r] = "decide" /\ pc'[r] # "decide" /\ ~batch[r].err) =>
           /\ batch[r].valid >= 20 => (pc'[r] = "returned" /\ result'[r] = 20)
           /\ batch[r].valid \in {18, 19} =>
                (pc'[r] = "returned" /\ result'[r] = batch[r].valid)
           /\ (batch[r].valid <= 17 /\ calls[r] < 3) =>
                (pc'[r] = "generate" /\ attempt'[r] = attempt[r] + 1)]_vars

\* C6: when the attempts are exhausted and the last one yields fewer than 15
\* valid questions, the source is counted as failed, no Question row is
\* written, and the loop goes on with the sources that remain.
C6_ExhaustedBelowFloorFails ==
    [][\A r \in Runners :
         (/\ pc[r] = "returned"
          /\ pc'[r] # "returned"
          /\ calls[r] = 3
          /\ ~batch[r].err
          /\ batch[r].valid < 15) =>
           /\ pc'[r] = "loop"
           /\ failed'[r] = failed[r] + 1
           /\ successful'[r] = successful[r]
           /\ outcome'[r][cur[r]] = "failed"
           /\ qrows' = qrows
           /\ qrows[aid[r]] = 0
           /\ todo' = todo]_vars

\* The third attempt of a source yielded 14 valid questions, the source has
\* been counted as failed, and another source is still to be processed.
C6_Witness ==
    \E r \in Runners :
        /\ pc[r] = "loop"
        /\ cur[r] # 0
        /\ calls[r] = 3
        /\ ~batch[r].err
        /\ batch[r].valid = 14
        /\ outcome[r][cur[r]] = "failed"
        /\ todo[r] # {}

\* C7 as stated: when the third attempt yields 15, 16 or 17 valid questions,
\* they are persisted for the source's Assessment and the source is counted
\* as successful.
C7_PartialResultPersisted ==
    \A r \in Runners :
        (/\ pc[r] = "loop"
         /\ cur[r] # 0
         /\ calls[r] = 3
         /\ ~batch[r].err
         /\ batch[r].valid \in 15..17) =>
          /\ outcome[r][cur[r]] = "successful"
          /\ qrows[aid[r]] = batch[r].valid

----------------------------------------------------------------------------
(***************************************************************************)
(* Properties of validate_question (SpecValidate) and of                   *)
(* determine_difficulty_from_chunks (SpecDifficulty).                      *)
(***************************************************************************)
NoBannedText(s) ==
    /\ \A i \in DOMAIN banned_patterns : ~contains(banned_patterns[i], lower(s))
    /\ \A i \in DOMAIN generic_questions : ~startswith(lower(s), generic_questions[i])

HasText(v) == v.kind = "str" /\ strip(v.str) # <<>>
NonEmptyString(v) == v.kind = "str" /\ v.str # <<>>

\* The malformed candidates named by the specification.
Malformed(c) ==
    \/ c.question = Text(<<>>)
    \/ contains(<<"p", "d", "f", "_">>, c.question.str)
    \/ c.options.kind = "list" /\ Len(c.options.items) = 3
    \/ /\ c.correct_answer = Text(<<"E">>)
       /\ c.options.kind = "list"
       /\ Len(c.options.items) = 4
       /\ \A i \in 1..4 : c.options.items[i] # Text(<<"E">>)
    \/ c.explanation = Text(<<>>)
    \/ c.difficulty = Text(<<"t", "r", "i", "v", "i", "a", "l">>)

\* The conditions of C9 read as written: a letter is one of A, B, C, D, the
\* answer equals an option's text, difficulty is one of the three words,
\* non-empty is not the empty string.
AcceptableAsWritten(c) ==
    /\ NonEmptyString(c.question)
    /\ Len(strip(c.question.str)) >= 30
    /\ NoBannedText(c.question.str)
    /\ c.options.kind = "list"
    /\ Len(c.options.items) = 4
    /\ \A i \in 1..4 : NonEmptyString(c.options.items[i])
    /\ NonEmptyString(c.correct_answer)
    /\ \/ c.correct_answer.str \in {<<"A">>, <<"B">>, <<"C">>, <<"D">>}
       \/ \E i \in 1..4 : c.options.items[i] = c.correct_answer
    /\ NonEmptyString(c.explanation)
    /\ c.difficulty.kind = "str"
    /\ c.difficulty.str \in {<<"e", "a", "s", "y">>, <<"m", "e", "d", "i", "u", "m">>, <<"h", "a", "r", "d">>}
    /\ NonEmptyString(c.topic)

\* C9 as stated: validate_question accepts a candidate if and only if the
\* conditions as written hold.
C9_AcceptsIffAsWritten ==
    verdict # "none" => (verdict = "accept" <=> AcceptableAsWritten(candidate))

\* What the validator accepts: blank counts as empty, the answer is trimmed
\* and a letter may be in either case, an option is matched as written, the
\* difficulty may be in any case but is not trimmed.
Acceptable(c) ==
    /\ c.question.kind = "str"
    /\ Len(strip(c.question.str)) >= 30
    /\ NoBannedText(c.question.str)
    /\ c.options.kind = "list"
    /\ Len(c.options.items) = 4
    /\ \A i \in 1..4 : HasText(c.options.items[i])
    /\ c.correct_answer.kind \in {"str", "int"}
    /\ c.correct_answer # Number(<<"0">>)
    /\ LET answer == strip(c.correct_answer.str)
       IN  /\ answer # <<>>
           /\ \/ upper(answer) \in {<<"A">>, <<"B">>, <<"C">>, <<"D">>}
              \/ \E i \in 1..4 : c.options.items[i].str = answer
    /\ HasText(c.explanation)
    /\ c.difficulty.kind = "str"
    /\ lower(c.difficulty.str) \in {<<"e", "a", "s", "y">>, <<"m", "e", "d", "i", "u", "m">>, <<"h", "a", "r", "d">>}
    /\ HasText(c.topic)

\* C9: validate_question accepts a candidate if and only if the question is
\* a string of at least 30 characters after trimming with no banned
\* substring and no banned opener (compared in lower case); options is a
\* list of exactly 4 strings, none blank; correct_answer is not empty, null
\* or zero and its string form, trimmed, is a letter A-D in either case or
\* the text of an option exactly as the option is written; explanation and
\* topic are strings that are not blank; difficulty is a string that in
\* lower case, untrimmed, is easy, medium or hard.  No candidate of the
\* malformed set is accepted, and one that is well-formed but for its
\* malformed field is rejected by return value.
C9_AcceptsIffWellFormed ==
    verdict # "none" =>
        /\ verdict = "accept" <=> Acceptable(candidate)
        /\ Malformed(candidate) => verdict # "accept"
        /\ (Malformed(candidate) /\ Defects(candidate) = 1) => verdict = "reject"

\* A candidate whose answer is a lower-case letter and whose difficulty is
\* in upper case has been accepted.
C9_Witness ==
    /\ verdict = "accept"
    /\ candidate.correct_answer = Text(<<"d">>)
    /\ candidate.difficulty = Text(<<"E", "A", "S", "Y">>)

\* C10: determine_difficulty_from_chunks returns easy exactly when the
\* average chunk length is below 200 and the keyword count is below 3,
\* otherwise hard exactly when the average is above 500 or the count is above
\* 8, otherwise medium; an empty chunk list, which has no average, gives
\* medium.  An average of exactly 200 or 500 with a count of exactly 3 or 8
\* gives medium, average 150 with 2 hits gives easy, average 600 gives hard,
\* average 300 with 4 hits gives medium.
C10_DifficultyRule ==
    difficulty # "none" =>
        LET n == Len(chunks)
            total == total_length(chunks)
            hits == tech_count(chunks)
            easy == n > 0 /\ total < 200 * n /\ hits < 3
            hard == ~easy /\ ((n > 0 /\ total > 500 * n) \/ hits > 8)
        IN  /\ difficulty = "easy" <=> easy
            /\ difficulty = "hard" <=> hard
            /\ difficulty = "medium" <=> (~easy /\ ~hard)
            /\ (n > 0 /\ total \in {200 * n, 500 * n} /\ hits \in {3, 8})
                  => difficulty = "medium"
            /\ (n > 0 /\ total = 150 * n /\ hits = 2) => difficulty = "easy"
            /\ (n > 0 /\ total = 600 * n) => difficulty = "hard"
            /\ (n > 0 /\ total = 300 * n /\ hits = 4) => difficulty = "medium"

\* Two chunks of average length exactly 200 holding 3 keyword hits have been
\* classified medium.
C10_Witness ==
    /\ difficulty = "medium"
    /\ Len(chunks) = 2
    /\ total_length(chunks) = 400
    /\ tech_count(chunks) = 3

----------------------------------------------------------------------------
(***************************************************************************)
(* Properties of the pipeline against a store whose requests may raise     *)
(* (SpecFaults).                                                           *)
(***************************************************************************)
\* C11 as stated: after create_assessment has persisted a new Assessment for
\* a source, every later check_assessment_exists_by_pdf_id for that source
\* in the same process returns that record and issues no store query.
C11_LookupFromCache ==
    lookup.by # 0 => (~lookup.queried /\ lookup.id = lookup.made)

Attempted(r) == {s \in Sources : outcome[r][s] \in {"successful", "failed"}}
InProgress(r) == pc[r] \notin {"idle", "constructed", "filter", "loop"}

\* C12: in one run every source of the to-process list is attempted exactly
\* once, whatever happened to the sources before it: no source awaits or
\* undergoes a second attempt, each attempt is counted once, and a run that
\* listed its sources ends only when every one of them has been skipped or
\* attempted, even when sources before it failed or raised.
C12_EverySourceAttemptedOnce ==
    \A r \in Runners :
        /\ todo[r] \cap Attempted(r) = {}
        /\ InProgress(r) => cur[r] \notin Attempted(r) \cup todo[r]
        /\ successful[r] + failed[r] = Cardinality(Attempted(r))
        /\ (pc[r] = "idle" /\ \E s \in Sources : outcome[r][s] # "none") =>
              /\ todo[r] = {}
              /\ \A s \in catalog : outcome[r][s] # "none"

\* A run has ended in which source 1 failed and source 2, after it, was
\* completed.
C12_Witness ==
    /\ pc[1] = "idle"
    /\ outcome[1][1] = "failed"
    /\ outcome[1][2] = "successful"

\* Process 1, which makes the runs that are executed one at a time, has
\* ended a run.
RunEnded == runs > 0 /\ pc[1] = "idle"

\* C13 as stated: at the end of every run, each Assessment that has zero
\* Question rows belongs to a source that this run counted as failed.
C13_EmptyAssessmentFlagged ==
    RunEnded =>
        \A i \in 1..Len(assessments) :
            qrows[i] = 0 => outcome[1][assessments[i].pdf] = "failed"

\* C14 as stated: a source whose Assessment had a course linkage and at
\* least one Question when the run began is counted as skipped only, and no
\* step the run makes for it calls the completion model or writes to the
\* store.
C14_CompleteSourceSkipped ==
    [][\A r \in Runners : \A s \in complete[r] :
          /\ outcome'[r][s] \in {"none", "skipped"}
          /\ (InProgress(r) /\ cur[r] = s) =>
                (storeVars' = storeVars /\ calls'[r] = calls[r])]_vars

\* ---------------------------------------------------------------------------
\* Properties of the batched insert of generate_questions_for_source (SpecBatch)
\* ---------------------------------------------------------------------------

RECURSIVE RowsInserted(_)
\* The number of question rows the store took over the given batches.
RowsInserted(bs) ==
    IF bs = <<>> THEN 0
    ELSE (IF bs[Len(bs)].outcome = "data" THEN bs[Len(bs)].length ELSE 0)
         + RowsInserted(SubSeq(bs, 1, Len(bs) - 1))

RECURSIVE RowsOffered(_)
\* The number of question rows handed to the store over the given batches.
RowsOffered(bs) ==
    IF bs = <<>> THEN 0
    ELSE bs[Len(bs)].length + RowsOffered(SubSeq(bs, 1, Len(bs) - 1))

\* C15: questions are inserted in batches of at most 50; a batch whose insert
\* raises or returns no data is skipped and every later batch is still
\* attempted (when the result is reported, every question has been offered to
\* the store, whatever the outcomes of the earlier batches), and the source is
\* reported successful if and only if at least one question row was inserted
\* over all batches.
C15_BatchedInsert ==
    /\ \A k \in 1..Len(ins.batches) :
          /\ ins.batches[k].length \in 1..50
          /\ (k < Len(ins.batches)) => ins.batches[k].length = 50
    /\ ins.result # "none" =>
          /\ RowsOffered(ins.batches) = ins.n
          /\ (ins.result = "success") <=> (RowsInserted(ins.batches) > 0)

\* Three batches: the first raises, the second returns no data, the third is
\* still attempted and inserts its single row, and the source is successful.
C15_Witness ==
    /\ ins.result = "success"
    /\ Len(ins.batches) = 3
    /\ ins.batches[1].outcome = "raise"
    /\ ins.batches[2].outcome = "nodata"
    /\ ins.batches[3] = [length |-> 1, outcome |-> "data"]

\* ---------------------------------------------------------------------------
\* Properties of the start of a run (SpecStartup)
\* ---------------------------------------------------------------------------

\* A credential is missing, the completion service cannot be reached, or the
\* store request of the constructor raised.
MissingAtStartup ==
    \/ ~startup.credentials
    \/ ~startup.completions
    \/ startup.store = "down"

\* The process r is past the constructor: it lists or processes sources.
Listing(r) == pc[r] \notin {"idle", "constructed"}

\* C16: when credentials for, or connectivity to, the completion service or
\* the store are missing at startup, the run aborts in the constructor: no
\* source is listed or processed, no completion call is made and the store is
\* not written.
C16_AbortsAtStartup ==
    [][MissingAtStartup' =>
          /\ \A r \in Runners : ~Listing(r)'
          /\ calls' = calls
          /\ storeVars' = storeVars]_vars

\* ---------------------------------------------------------------------------
\* Properties of the persisted Assessment (Spec)
\* ---------------------------------------------------------------------------

\* C17: for every source the pipeline completes successfully, the stored
\* question_count of its Assessment equals the number of Question rows
\* persisted for that Assessment (the rows are counted per Assessment id).
C17_QuestionCountMatchesRows ==
    \A r \in Runners : \A s \in Sources :
        outcome[r][s] = "successful" =>
            \A i \in RowsOf(s) : assessments[i].question_count = qrows[i]

\* ---------------------------------------------------------------------------
\* Properties of the scoring of a submission (SpecScore)
\* ---------------------------------------------------------------------------

\* C18: submit_assessment scores an answer as correct whenever it designates
\* the same option as the stored correct_answer, whichever of the two
\* encodings (letter, or text of the option) each of them uses.
C18_SameOptionScoredCorrect ==
    (scoring.is_correct # "none"
        /\ scoring.selected_option = scoring.correct_option) =>
      (scoring.is_correct = "yes" /\ scoring.total_score = 1)

\* ---------------------------------------------------------------------------
\* Properties of the difficulty mix (SpecMix)
\* ---------------------------------------------------------------------------

\* e, m and h are the mix of n questions: e is n div 3 and m is (2n) div 3,
\* stated by the bounds of the quotients, and h is the remainder of n.
IsMixOf(n, e, m, h) ==
    /\ 3 * e <= n /\ n < 3 * e + 3
    /\ 3 * m <= 2 * n /\ 2 * n < 3 * m + 3
    /\ h = n - e - m
    /\ e >= 0 /\ m >= 0 /\ h >= 0
    /\ e + m + h = n
    /\ h \in {0, 1}

SkillLabels == {skill_keywords[i].skill : i \in DOMAIN skill_keywords}
CourseLabels == {PythonCourse, DevOpsCourse}
Unknown == <<"U", "n", "k", "n", "o", "w", "n">>

\* The name matches no keyword of the topic lexicon; the name and the
\* identifier match no keyword of the course lexicon.
UnmatchedTopic ==
    \A i \in DOMAIN skill_keywords :
        ~contains(skill_keywords[i].keyword, lower(topic.source_name))
UnmatchedCourse ==
    LET text == lower(topic.source_name) \o <<" ">> \o lower(topic.pdf_id) IN
    \A k \in devops_indicators \cup python_indicators \cup {ModuleWord} :
        ~contains(k, text)

\* The label is the first word of the name, whatever its case, or one of the
\* literals "General" and "Unknown".
FirstWordOrLiteral(label) ==
    \/ label \in {General, Unknown}
    \/ (label # <<>> /\ lower(label) = lower(first_word(topic.source_name)))

\* C20 as stated: a source that matches nothing is given the first word of
\* its name, or "General" or "Unknown", and never a label of the lexicon.
C20_FallbackNeverLexicon ==
    /\ (topic.extracted /\ UnmatchedTopic) =>
          (topic.topic \notin SkillLabels /\ FirstWordOrLiteral(topic.topic))
    /\ (topic.detected /\ UnmatchedCourse) =>
          (topic.course \notin CourseLabels /\ FirstWordOrLiteral(topic.course))

\* C20 as amended: for a name that matches no keyword, extract_topic_from_source
\* returns the first word in title case when the name holds a space and a
\* word, otherwise the first 30 characters of the name, or "General" for the
\* empty name, and never a label of the lexicon; detect_course_name returns
\* "Python" for a source that matches no indicator.
C20_FallbackTopicDefaultCourse ==
    /\ (topic.extracted /\ UnmatchedTopic) =>
          LET name == topic.source_name
              spaced == InTable(" ", name) /\ strip(name) # <<>>
          IN  /\ topic.topic \notin SkillLabels
              /\ spaced => topic.topic = title(first_word(name))
              /\ (~spaced /\ name # <<>>) =>
                    /\ Len(topic.topic) <= 30
                    /\ Len(topic.topic) <= Len(name)
                    /\ topic.topic = SubSeq(name, 1, Len(topic.topic))
                    /\ Len(name) <= 30 => topic.topic = name
              /\ name = <<>> => topic.topic = General
    /\ (topic.detected /\ UnmatchedCourse) => topic.course = PythonCourse

\* "my notes" with the id "a1b2" matches nothing: its topic is "My" and its
\* course is "Python".
C20_Witness ==
    /\ topic.extracted /\ topic.detected
    /\ UnmatchedTopic /\ UnmatchedCourse
    /\ topic.source_name = <<"m", "y", " ", "n", "o", "t", "e", "s">>
    /\ topic.topic = <<"M", "y">>
    /\ topic.course = PythonCourse

\* ---------------------------------------------------------------------------
\* Properties of the knowledge extraction (SpecExtract)
\* ---------------------------------------------------------------------------

\* The extraction call of process r has failed: it raised or timed out, or
\* its content did not decode.
ExtractionFailed(r) == knowledge[r].outcome \in {"raise", "undecodable"}

\* C21: when the knowledge-extraction call fails (exception, timeout,
\* content that is not JSON), the summary is empty and generation starts with
\* its full budget: the failure does not count the source as failed and uses
\* up no generation attempt; generation gives up only after three calls.
C21_ExtractionFailureIsHarmless ==
    [][\A r \in Runners :
         /\ (pc[r] = "extract" /\ ExtractionFailed(r)') =>
               /\ knowledge'[r].summary = "empty"
               /\ pc'[r] = "generate"
               /\ attempt'[r] = 0 /\ calls'[r] = 0
               /\ countVars' = countVars
         /\ (ExtractionFailed(r) /\ pc[r] = "decide" /\ pc'[r] = "returned"
                /\ result'[r] = 0) =>
               calls[r] = 3]_vars

\* The extraction call raised, and the source was completed on the third
\* generation attempt.
C21_Witness ==
    /\ knowledge[1].outcome = "raise"
    /\ knowledge[1].summary = "empty"
    /\ calls[1] = 3
    /\ cur[1] # 0
    /\ outcome[1][cur[1]] = "successful"

\* ---------------------------------------------------------------------------
\* Properties of the order of the steps for a source (Spec)
\* ---------------------------------------------------------------------------

\* Process r is working on a source whose question generation has not
\* returned yet.
GenerationPending(r) ==
    InProgress(r) /\ pc[r] \notin {"returned", "insertQcheck", "insertQ"}

\* C22: the steps for a source are fetch chunks, generate questions, insert
\* assessment, insert questions: no Course, Assessment or Question is
\* written before question generation for the source has completed.
C22_NoWriteBeforeGeneration ==
    [][\A r \in Runners : GenerationPending(r) => storeVars' = storeVars]_vars

\* ---------------------------------------------------------------------------
\* Properties of the service pipeline (SpecService)
\* ---------------------------------------------------------------------------

\* C23: invoking the service pipeline twice against an unchanged source set
\* leaves the same number of Assessments and of Questions as invoking it once.
C23_ServiceRerunSameCounts ==
    (service.runs >= 2 /\ service.todo = {}) =>
        /\ Total(service.assessments) = service.first.assessments
        /\ Total(service.questions) = service.first.questions

\* ---------------------------------------------------------------------------
\* Properties of a failed generation attempt (Spec)
\* ---------------------------------------------------------------------------

\* C24: a response that does not decode, or a completion call that raises,
\* on attempt k uses up exactly that attempt: for k < 3 the controller goes
\* on (after its delay) to attempt k + 1, for k = 3 it returns the empty
\* list; the caller gets a return value, never the exception.
C24_FailedAttemptConsumesOne ==
    [][\A r \in Runners :
         (pc[r] = "decide" /\ batch[r].err /\ pc'[r] # "decide") =>
            /\ calls[r] = attempt[r] + 1
            /\ calls'[r] = calls[r]
            /\ countVars' = countVars
            /\ calls[r] < 3 =>
                  (pc'[r] = "generate" /\ attempt'[r] = attempt[r] + 1)
            /\ calls[r] = 3 =>
                  (pc'[r] = "returned" /\ result'[r] = 0)]_vars

\* The second call has failed and the controller is about to make the third.
C24_Witness ==
    \E r \in Runners :
        pc[r] = "generate" /\ batch[r].err /\ calls[r] = 2 /\ attempt[r] = 2

\* ---------------------------------------------------------------------------
\* Properties of the course backfill (SpecFaults)
\* ---------------------------------------------------------------------------

\* C25: when the Assessment of a source exists without a course linkage and
\* the course get-or-create succeeds, the same Assessment is left with a
\* course_id, no Assessment is created, and the cache entry of the source
\* carries the same id and the new course_id.
C25_BackfillLinksCourse ==
    [][\A r \in Runners :
         (pc[r] = "backfill" /\ course_id'[r] # 0) =>
            /\ Len(assessments') = Len(assessments)
            /\ assessments'[aid[r]].pdf = cur[r]
            /\ assessments'[aid[r]].course = course_id'[r]
            /\ cache'[r][cur[r]].id = aid[r]
            /\ cache'[r][cur[r]].course = course_id'[r]]_vars

\* What the validator's own checks say of the rule an issue names.
Violates(q, issue) ==
    CASE issue \in {"contains filename/metadata reference", "generic/trivial question",
                    "question too short", "missing question"} ->
             check_question_text(q) # "pass"
      [] issue = "invalid options" -> ~options_ok(get(q, "options", List(<<>>)))
      [] issue \in {"missing correct_answer", "invalid correct_answer format"} ->
             check_correct_answer(q) # "pass"
      [] issue = "missing explanation" -> check_text_field(q, "explanation") # "pass"
      [] issue = "invalid difficulty" -> check_difficulty(q) # "pass"
      [] issue = "missing topic" -> check_text_field(q, "topic") # "pass"
      [] OTHER -> FALSE

\* C26: every candidate that validate_question rejects is reported by the
\* generation loop with at least one specific failing rule: the issue list
\* computed for a rejected candidate is never empty and names only rules the
\* candidate violates.
C26_RejectedCandidateDiagnosed ==
    (verdict = "reject" /\ diagnosis.outcome # "none") =>
        /\ diagnosis.outcome = "issues"
        /\ diagnosis.issues # {}
        /\ \A issue \in diagnosis.issues : Violates(candidate, issue)

\* C27: the run summary is consistent: the sources detected are the sources
\* skipped plus the sources attempted, the sources attempted are the
\* successes plus the failures, and no source is counted in more than one of
\* skipped, successful, failed.
C27_SummaryConsistent ==
    \A r \in Runners : summary[r].printed =>
        /\ summary[r].detected = summary[r].skipped + summary[r].attempted
        /\ summary[r].attempted = summary[r].successful + summary[r].failed
        /\ skipped[r] \cap listed[r].pdfs_to_process = {}
        /\ skipped[r] \cup listed[r].pdfs_to_process = listed[r].pdf_ids
        /\ summary[r].successful =
              Cardinality({s \in listed[r].pdfs_to_process : outcome[r][s] = "successful"})
        /\ summary[r].failed =
              Cardinality({s \in listed[r].pdfs_to_process : outcome[r][s] = "failed"})
        /\ \A s \in skipped[r] : outcome[r][s] = "skipped"

\* A summary was printed for a run that skipped a source and attempted
\* another, which failed on a store request that raised.
C27_Witness ==
    /\ faults
    /\ summary[1].printed
    /\ summary[1].skipped = 1
    /\ summary[1].failed = 1
    /\ summary[1].successful = 0

\* C28: for num_questions = 10, generate_questions_for_source requests 3
\* easy, 4 medium and 3 hard questions from the question synthesizer.
C28_ThreeFourThree ==
    (mix.n = 10 /\ mix.counts # <<>>) =>
        /\ mix.counts = [easy |-> 3, medium |-> 4, hard |-> 3]
        /\ mix.asked = mix.counts

\* C29: the two copies of the generation controller are equivalent: for
\* every sequence of responses of the completion model they make the same
\* number of completion calls and return the same list of questions.
C29_CopiesEquivalent ==
    (twin.scripts.kind = "returned" /\ twin.root.kind = "returned") =>
        /\ twin.scripts.calls = twin.root.calls
        /\ twin.scripts.n = twin.root.n

\* C30: within one process, a failed refresh of the assessment cache or a
\* failed question-existence query never leads the pipeline to insert a
\* second Assessment, or a second question set, for a source that already
\* has one.
C30_NoSecondInsertOnFailedRead ==
    [][\A s \in Sources :
          /\ RowsOf(s) # {} => RowsOf(s)' = RowsOf(s)
          /\ (\E i \in RowsOf(s) : qrows[i] > 0) =>
                \A j \in RowsOf(s)' :
                    qrows'[j] = IF j \in RowsOf(s) THEN qrows[j] ELSE 0]_vars

====
